---- MODULE Spec2Model ----
(***************************************************************************)
(* Model of the chat backend (Django + Channels): the group REST views     *)
(* (groups/views.py), the group websocket consumer (groups/consumers.py),  *)
(* the direct and group chat consumers (chat/consumers.py) and the chat    *)
(* room REST views (chat/views.py).                                        *)
(*                                                                         *)
(* The database tables are variables (groups, gmsgs, dmsgs, rooms, cmsgs), *)
(* the channel layer registry is `layer`, the consumer instances are       *)
(* `sessions`.  The three variables last/reply/bus hold the request that   *)
(* was handled last, what was returned to its originator, and what it      *)
(* published to the channel layer.  `inflight` holds the group views that  *)
(* run concurrently with other requests: a view that has passed its checks *)
(* and has not yet written.                                                *)
(***************************************************************************)
EXTENDS Integers, Sequences, FiniteSets, TLC

\* ------------------------------------------------------------------ bounds
\* Largest number of GroupMessage rows ever inserted (the id counter).
MaxMsgs == 3

\* ------------------------------------------------------------- identities
\* Rows of the User table.
Users == {1, 2, 3}
\* User ids a request may name; the last one has no row.
UserIds == {1, 2, 3, 4}
\* Group ids a create may be given by the id sequence.
GroupIds == {1}
\* Websocket connections that can be open at the same time.
SessionIds == {1, 2}
\* sender = None / absent id.
None == 0

\* The content ChatMessage.delete leaves in a deleted message.
Tombstone == "[Message Deleted]"

\* Bodies a client may send; "" is the empty body.
Bodies == {"hi", ""}
\* Client-supplied message ids; "" is an absent id.
ClientIds == {"c1", ""}

VARIABLES
    groups,     \* groups.Group rows: id -> [creator, admins, members]
    nextGid,    \* next id of the Group table
    gmsgs,      \* groups.GroupMessage rows: id -> row
    nextMid,    \* next id of the GroupMessage table
    sessions,   \* websocket consumer instances: id -> instance state
    layer,      \* channel layer registry: set of <<channel, session>>
    last,       \* the request or frame handled last
    reply,      \* what the last handler returned to its originator
    bus,        \* events the last handler published, in order
    dmsgs,      \* chat Message rows (direct chat), in insertion order
    rooms,      \* chat.ChatRoom rows: id -> [is_group, admins, members]
    cmsgs,      \* chat.ChatMessage rows, in insertion order
    inflight,   \* group views between their checks and their writes
    requests,   \* contacts.FriendRequest rows: id -> [sender, receiver, accepted]
    nextRid,    \* next id of the FriendRequest table
    contacts    \* contacts.Contact rows: set of <<user, friend>>

vars == <<groups, nextGid, gmsgs, nextMid, sessions, layer, last, reply, bus,
          dmsgs, rooms, cmsgs, inflight, requests, nextRid, contacts>>

\* The tables of the groups app, the consumer instances with the channel
\* layer, and the tables of the chat app.
dbVars == <<groups, nextGid, gmsgs, nextMid>>
wsVars == <<sessions, layer>>
chatVars == <<dmsgs, rooms, cmsgs>>
\* The tables of the contacts app.
contactVars == <<requests, nextRid, contacts>>

\* ------------------------------------------------------------ requests
Req(op, via, actor, group, target, mid, cid) ==
    [op |-> op, via |-> via, actor |-> actor, group |-> group,
     target |-> target, mid |-> mid, cid |-> cid, sid |-> 0, body |-> "",
     fault |-> "none"]

NoReq == Req("none", "none", None, None, None, None, "")

\* An HTTP response: status code and the "error" text of its body ("" when
\* the body carries no error).
Http(status, error) == [kind |-> "http", status |-> status, error |-> error]

NoReply == [kind |-> "none", status |-> 0, error |-> ""]

\* A frame the consumer sends to its own socket with type "error".
ErrorFrame(error) == [kind |-> "error", status |-> 0, error |-> error]

\* self.close(code=...)
Close(code) == [kind |-> "close", status |-> code, error |-> ""]

\* The originator was told that the request failed.
IsError(r) == r.kind = "error" \/ (r.kind = "http" /\ r.status >= 400)

\* ------------------------------------------------------- channel layer
GroupChannel(g) == <<"group", g>>

Subscribers(chan) == {s \in DOMAIN sessions : <<chan, s>> \in layer}

\* channel_layer.group_send(chan, {"type": type, ...}); has_id says whether
\* the producer put an event_id into the event.
Event(chan, type, mid, has_id) ==
    [chan |-> chan, type |-> type, mid |-> mid, event_id |-> has_id,
     to |-> Subscribers(chan)]

\* The sessions whose relay handler passes the event on to the socket: the
\* handlers of groups.GroupChatConsumer read event['event_id'] and raise
\* when the producer left it out.
Receivers(e) ==
    {s \in e.to : sessions[s].consumer = "groups" => e.event_id}

\* ------------------------------------------------------------ group rows
\* Group.save(): write the row, then put the creator back into admins.
GroupSave(grp) ==
    IF grp.creator \in grp.admins THEN grp
    ELSE [grp EXCEPT !.admins = @ \cup {grp.creator}]

\* A GroupMessage row as created by GroupMessage.objects.create.
NewGroupMessage(g, sender, text, subj, by) ==
    [group |-> g, sender |-> sender, text |-> text, subj |-> subj,
     by |-> by, is_pinned |-> FALSE, read_by |-> {}, reactions |-> << >>]

\* ----------------------------------------------------------------- Init
Init ==
    /\ groups = << >>
    /\ nextGid = 1
    /\ gmsgs = << >>
    /\ nextMid = 1
    /\ sessions = << >>
    /\ layer = {}
    /\ last = NoReq
    /\ reply = NoReply
    /\ bus = << >>
    /\ dmsgs = << >>
    /\ rooms = << >>
    /\ cmsgs = << >>
    /\ inflight = << >>
    /\ requests = << >>
    /\ nextRid = 1
    /\ contacts = {}

\* ------------------------------------------------- REST handler plumbing
\* A view that returns without touching the database or the channel layer.
Reject(req, status, error) ==
    /\ last' = req
    /\ reply' = Http(status, error)
    /\ bus' = << >>
    /\ UNCHANGED <<dbVars, wsVars, chatVars, contactVars, inflight>>

\* The tail shared by the administrative views: group.save(), a system
\* message (sender = None), group_message and group_updated events.
AdminWrites(req, g, grp, text, subj, status) ==
    /\ nextMid <= MaxMsgs
    /\ groups' = [groups EXCEPT ![g] = GroupSave(grp)]
    /\ gmsgs' = gmsgs @@ (nextMid :> NewGroupMessage(g, None, text, subj, req.actor))
    /\ nextMid' = nextMid + 1
    /\ bus' = << Event(GroupChannel(g), "group_message", nextMid, FALSE),
                 Event(GroupChannel(g), "group_updated", None, FALSE) >>
    /\ last' = req
    /\ reply' = Http(status, "")
    /\ UNCHANGED <<nextGid, wsVars, chatVars, contactVars>>

\* A view that runs from its first query to its response with no other
\* request in between.
AdminCommit(req, g, grp, text, subj, status) ==
    /\ AdminWrites(req, g, grp, text, subj, status)
    /\ UNCHANGED inflight

\* ------------------------------------------------------ CreateGroupView
CreateGroup(a, hasName, ids) ==
    LET req == Req("create_group", "rest", a, None, None, None, "")
        found == ids \cap Users
    IN  IF ~hasName THEN Reject(req, 400, "Group name is required")
        ELSE IF found = {} /\ ids # {} THEN Reject(req, 400, "Invalid member IDs")
        ELSE
            /\ nextGid \in GroupIds
            /\ nextMid <= MaxMsgs
            /\ groups' = groups @@ (nextGid :>
                   GroupSave([creator |-> a, admins |-> {a},
                              members |-> found \cup {a}]))
            /\ nextGid' = nextGid + 1
            /\ gmsgs' = gmsgs @@ (nextMid :>
                   NewGroupMessage(nextGid, None, "created", None, a))
            /\ nextMid' = nextMid + 1
            /\ bus' = << Event(GroupChannel(nextGid), "group_message", nextMid, FALSE),
                         Event(GroupChannel(nextGid), "group_updated", None, FALSE) >>
            /\ last' = [req EXCEPT !.group = nextGid]
            /\ reply' = Http(201, "")
            /\ UNCHANGED <<wsVars, chatVars, contactVars, inflight>>

\* -------------------------------------------------- AddMemberToGroupView
AddMemberAllowed(grp, a) == a \in grp.admins

AddMember(a, g, t) ==
    LET req == Req("add_member", "rest", a, g, t, None, "") IN
    IF g \notin DOMAIN groups THEN Reject(req, 404, "Group not found")
    ELSE IF t \notin Users THEN Reject(req, 404, "User not found")
    ELSE IF ~AddMemberAllowed(groups[g], a)
        THEN Reject(req, 403, "Only admins can add members")
    ELSE IF t \in groups[g].members
        THEN Reject(req, 400, "User is already a member of the group")
    ELSE AdminCommit(req, g, [groups[g] EXCEPT !.members = @ \cup {t}],
                     "added", t, 200)

\* --------------------------------------------- RemoveMemberFromGroupView
RemoveMemberAllowed(grp, a) == a \in grp.admins

RemoveMember(a, g, t) ==
    LET req == Req("remove_member", "rest", a, g, t, None, "") IN
    IF g \notin DOMAIN groups THEN Reject(req, 404, "Group not found")
    ELSE IF t \notin Users THEN Reject(req, 404, "User not found")
    ELSE IF ~RemoveMemberAllowed(groups[g], a)
        THEN Reject(req, 403, "Only admins can remove members")
    ELSE IF t \notin groups[g].members
        THEN Reject(req, 400, "User is not a member of the group")
    ELSE IF t = groups[g].creator
        THEN Reject(req, 400, "Cannot remove the group owner")
    ELSE AdminCommit(req, g,
             [groups[g] EXCEPT !.members = @ \ {t}, !.admins = @ \ {t}],
             "removed", t, 200)

\* ------------------------------------------------------- owner-only gate
\* `request.user != group.creator` of the assign, revoke, transfer and
\* delete-group views.
IsOwner(grp, a) == a = grp.creator

\* ------------------------------------------------------- AssignAdminView
AssignAdmin(a, g, t) ==
    LET req == Req("assign_admin", "rest", a, g, t, None, "") IN
    IF g \notin DOMAIN groups THEN Reject(req, 404, "Group not found")
    ELSE IF t \notin Users THEN Reject(req, 404, "User not found")
    ELSE IF ~IsOwner(groups[g], a)
        THEN Reject(req, 403, "Only the group owner can assign admin rights")
    ELSE IF t \notin groups[g].members
        THEN Reject(req, 400, "User must be a member of the group to be assigned as admin")
    ELSE IF t \in groups[g].admins
        THEN Reject(req, 400, "User is already an admin")
    ELSE AdminCommit(req, g, [groups[g] EXCEPT !.admins = @ \cup {t}],
                     "granted", t, 200)

\* ------------------------------------------------------- RevokeAdminView
\* Mutant: the owner check of the revoke view is gone.
RevokeTargetIsOwner_Never(grp, t) == FALSE

\* `user == group.creator`: the owner's admin rights cannot be revoked.
RevokeTargetIsOwner(grp, t) == t = grp.creator

RevokeAdmin(a, g, t) ==
    LET req == Req("revoke_admin", "rest", a, g, t, None, "") IN
    IF g \notin DOMAIN groups THEN Reject(req, 404, "Group not found")
    ELSE IF t \notin Users THEN Reject(req, 404, "User not found")
    ELSE IF ~IsOwner(groups[g], a)
        THEN Reject(req, 403, "Only the group owner can revoke admin rights")
    ELSE IF RevokeTargetIsOwner(groups[g], t)
        THEN Reject(req, 400, "Cannot revoke admin rights from the group owner")
    ELSE IF t \notin groups[g].admins
        THEN Reject(req, 400, "User is not an admin")
    ELSE AdminCommit(req, g, [groups[g] EXCEPT !.admins = @ \ {t}],
                     "revoked", t, 200)

\* ------------------------------------------------- TransferOwnershipView
\* Mutant: any existing user may be made the owner.
TransferTargetIsMember_Any(grp, n) == TRUE

\* `new_owner not in group.members.all()` rejects the request.
TransferTargetIsMember(grp, n) == n \in grp.members

\* Mutant: the new owner is made an admin but the creator is not reassigned.
Transferred_KeepsCreator(grp, a, n) ==
    [grp EXCEPT !.admins = (@ \cup {n}) \cup {a}]

\* The row after `group.creator = new_owner` and the two admins.add calls.
Transferred(grp, a, n) ==
    [grp EXCEPT !.creator = n, !.admins = (@ \cup {n}) \cup {a}]

TransferOwnership(a, g, n) ==
    LET req == Req("transfer_ownership", "rest", a, g, n, None, "") IN
    IF g \notin DOMAIN groups THEN Reject(req, 404, "Group not found")
    ELSE IF n \notin Users THEN Reject(req, 404, "User not found")
    ELSE IF ~IsOwner(groups[g], a)
        THEN Reject(req, 403, "Only the group owner can transfer ownership")
    ELSE IF n = groups[g].creator
        THEN Reject(req, 400, "User is already the group owner")
    ELSE IF ~TransferTargetIsMember(groups[g], n)
        THEN Reject(req, 400, "User must be a member of the group to become the owner")
    ELSE AdminCommit(req, g, Transferred(groups[g], a, n), "transferred", n, 200)

\* -------------------------------------------------------- LeaveGroupView
\* Mutant: the leaver is taken out of members only.
Left_StaysAdmin(grp, a) == [grp EXCEPT !.members = @ \ {a}]

\* The row after `group.members.remove(user)` and `group.admins.remove(user)`.
Left(grp, a) == [grp EXCEPT !.members = @ \ {a}, !.admins = @ \ {a}]

LeaveGroup(a, g) ==
    LET req == Req("leave_group", "rest", a, g, a, None, "") IN
    IF g \notin DOMAIN groups THEN Reject(req, 404, "Group not found")
    ELSE IF a \notin groups[g].members
        THEN Reject(req, 400, "You are not a member of this group")
    ELSE IF a = groups[g].creator
        THEN Reject(req, 400, "The group owner cannot leave the group")
    ELSE AdminCommit(req, g, Left(groups[g], a), "left", a, 200)

\* ------------------------------------------------------- DeleteGroupView
\* f without the keys in ks.
Without(f, ks) == [x \in DOMAIN f \ ks |-> f[x]]

\* group.delete(): the row goes, and its messages with it (CASCADE).
GroupDeleted(g) ==
    /\ groups' = Without(groups, {g})
    /\ gmsgs' = Without(gmsgs, {m \in DOMAIN gmsgs : gmsgs[m].group = g})
    /\ UNCHANGED <<nextGid, nextMid>>

DeleteGroup(a, g) ==
    LET req == Req("delete_group", "rest", a, g, None, None, "") IN
    IF g \notin DOMAIN groups THEN Reject(req, 404, "Group not found")
    ELSE IF ~IsOwner(groups[g], a)
        THEN Reject(req, 403, "Only the group owner can delete the group")
    ELSE
        /\ GroupDeleted(g)
        /\ bus' = << Event(GroupChannel(g), "group_deleted", None, FALSE) >>
        /\ last' = req
        /\ reply' = Http(200, "")
        /\ UNCHANGED <<wsVars, chatVars, contactVars, inflight>>

\* ------------------------------------- PinMessageView / UnpinMessageView
\* Mutant: membership is taken for the right to moderate.
IsAdminOrCreator_Member(grp, a) == a \in grp.members

\* `request.user in group.admins.all() or request.user == group.creator`
IsAdminOrCreator(grp, a) == a \in grp.admins \/ a = grp.creator

\* GroupMessage.objects.get(id=message_id, group=group) finds a row.
InGroup(m, g) == m \in DOMAIN gmsgs /\ gmsgs[m].group = g

SetPinned(a, g, m, pinned) ==
    LET req == Req(IF pinned THEN "pin_message" ELSE "unpin_message",
                   "rest", a, g, None, m, "") IN
    IF g \notin DOMAIN groups THEN Reject(req, 404, "Group not found")
    ELSE IF ~InGroup(m, g) THEN Reject(req, 404, "Message not found")
    ELSE IF ~IsAdminOrCreator(groups[g], a)
        THEN Reject(req, 403, IF pinned
                                THEN "Only admins or creator can pin messages"
                                ELSE "Only admins or creator can unpin messages")
    ELSE
        /\ gmsgs' = [gmsgs EXCEPT ![m].is_pinned = pinned]
        /\ bus' = << Event(GroupChannel(g), "group_message", m, FALSE) >>
        /\ last' = req
        /\ reply' = Http(200, "")
        /\ UNCHANGED <<groups, nextGid, nextMid, wsVars, chatVars, contactVars, inflight>>

PinMessage(a, g, m) == SetPinned(a, g, m, TRUE)

UnpinMessage(a, g, m) == SetPinned(a, g, m, FALSE)

\* ------------------------------------------- DeleteGroupMessageView (REST)
\* Mutant: every user may edit and delete every message.
MayEditOrDelete_Anyone(grp, msg, a) == TRUE

\* `message.sender != request.user and not is_admin_or_creator` rejects.
MayEditOrDelete(grp, msg, a) == msg.sender = a \/ IsAdminOrCreator(grp, a)

\* Mutant: a delete is announced with the event type of a new message.
DeletedEvent_AsMessage(chan, m, has_id) == Event(chan, "group_message", m, has_id)

\* group_send(chan, {"type": "group_message_deleted", "message_id": m, ...})
DeletedEvent(chan, m, has_id) == Event(chan, "group_message_deleted", m, has_id)

\* GroupMessage.delete(): the model does not override delete, the row goes.
GroupMessageDeleted(m) == Without(gmsgs, {m})

DeleteGroupMessage(a, g, m) ==
    LET req == Req("delete_message", "rest", a, g, None, m, "") IN
    IF g \notin DOMAIN groups THEN Reject(req, 404, "Group not found")
    ELSE IF ~InGroup(m, g) THEN Reject(req, 404, "Message not found")
    ELSE IF ~MayEditOrDelete(groups[g], gmsgs[m], a)
        THEN Reject(req, 403, "You are not authorized to delete this message")
    ELSE
        /\ gmsgs' = GroupMessageDeleted(m)
        /\ bus' = << DeletedEvent(GroupChannel(g), m, FALSE) >>
        /\ last' = req
        /\ reply' = Http(200, "")
        /\ UNCHANGED <<groups, nextGid, nextMid, wsVars, chatVars, contactVars, inflight>>

\* ======================================================================
\* groups/consumers.py: GroupChatConsumer
\* ======================================================================
FreeSid == CHOOSE s \in SessionIds \ DOMAIN sessions :
               \A t \in SessionIds \ DOMAIN sessions : s <= t

UserChannel(u) == <<"user", u>>

WsReq(op, s, g, m, cid, body) ==
    [op |-> op, via |-> "ws", actor |-> sessions[s].user, group |-> g,
     target |-> None, mid |-> m, cid |-> cid, sid |-> s, body |-> body,
     fault |-> "none"]

\* The connection is refused: close(code) before accept, nothing registered.
Refuse(req, code) ==
    /\ last' = req
    /\ reply' = Close(code)
    /\ bus' = << >>
    /\ UNCHANGED <<dbVars, wsVars, chatVars, contactVars, inflight>>

\* Group.objects.filter(id=group_id, members=user).exists()
IsMemberOf(g, u) == g \in DOMAIN groups /\ u \in groups[g].members

\* get_user_groups(): the groups the user is a member of.
UserGroups(u) == {g \in DOMAIN groups : u \in groups[g].members}

\* connect(): tok is the user id the token carries, None when the query
\* string has no token; g is the group_id of the route, None on ws/groups/.
GroupsConnect(tok, g) ==
    LET req == [Req("connect", "ws", tok, g, None, None, "") EXCEPT !.sid = FreeSid]
        chans == IF g # None THEN {GroupChannel(g)}
                 ELSE {GroupChannel(x) : x \in UserGroups(tok)}
    IN  /\ SessionIds \ DOMAIN sessions # {}
        /\ IF tok = None THEN Refuse(req, 4001)
           ELSE IF tok \notin Users THEN Refuse(req, 4003)
           ELSE IF g # None /\ ~IsMemberOf(g, tok) THEN Refuse(req, 4004)
           ELSE
               /\ sessions' = sessions @@ (FreeSid :>
                      [consumer |-> "groups", user |-> tok, group_id |-> g,
                       group_channels |-> chans, pending |-> FALSE,
                       pending_group |-> None])
               /\ layer' = layer \cup {<<c, FreeSid>> : c \in chans}
               /\ last' = req
               /\ reply' = IF chans = {}
                           THEN [kind |-> "info", status |-> 0, error |-> ""]
                           ELSE NoReply
               /\ bus' = << >>
               /\ UNCHANGED <<dbVars, chatVars, contactVars, inflight>>

\* Mutant: the disconnect clears the registrations of every session.
Disconnect_DiscardsAll(s) ==
    /\ s \in DOMAIN sessions
    /\ sessions[s].consumer = "groups"
    /\ layer' = {}
    /\ sessions' = Without(sessions, {s})
    /\ last' = WsReq("disconnect", s, None, None, "", "")
    /\ reply' = NoReply
    /\ bus' = << >>
    /\ UNCHANGED <<dbVars, chatVars, contactVars, inflight>>

\* disconnect(): group_discard for every channel of self.group_channels.
Disconnect(s) ==
    /\ s \in DOMAIN sessions
    /\ sessions[s].consumer = "groups"
    /\ layer' = layer \ {<<c, s>> : c \in sessions[s].group_channels}
    /\ sessions' = Without(sessions, {s})
    /\ last' = WsReq("disconnect", s, None, None, "", "")
    /\ reply' = NoReply
    /\ bus' = << >>
    /\ UNCHANGED <<dbVars, chatVars, contactVars, inflight>>

\* The handler sent an error frame to its own socket and returned.
FrameError(req, error) ==
    /\ last' = req
    /\ reply' = ErrorFrame(error)
    /\ bus' = << >>
    /\ UNCHANGED <<dbVars, wsVars, chatVars, contactVars, inflight>>

\* group_id = data.get('group_id', self.group_id)
FrameGroup(s, g) == IF g # None THEN g ELSE sessions[s].group_id

\* receive(), type 'group_message': g is the frame's group_id (None when
\* absent), body its message, cid its message_id (which the handler never
\* reads).
WsGroupMessage(s, g, body, cid) ==
    LET gid == FrameGroup(s, g)
        req == WsReq("create_message", s, gid, None, cid, body)
        u == sessions[s].user
    IN  /\ s \in DOMAIN sessions
        /\ sessions[s].consumer = "groups"
        /\ IF gid = None THEN FrameError(req, "No group_id provided")
           ELSE IF gid \notin DOMAIN groups
               THEN FrameError(req, "Failed to process text data")
           ELSE IF body = ""
               THEN /\ sessions' = [sessions EXCEPT ![s].pending = TRUE,
                                                    ![s].pending_group = gid]
                    /\ last' = req
                    /\ reply' = NoReply
                    /\ bus' = << >>
                    /\ UNCHANGED <<dbVars, layer, chatVars, contactVars, inflight>>
           ELSE
               /\ nextMid <= MaxMsgs
               /\ sessions' = [sessions EXCEPT ![s].pending = FALSE]
               /\ gmsgs' = gmsgs @@ (nextMid :>
                      [NewGroupMessage(gid, u, body, None, None)
                          EXCEPT !.read_by = {u}])
               /\ nextMid' = nextMid + 1
               /\ bus' = << Event(GroupChannel(gid), "group_message", nextMid, TRUE),
                            Event(GroupChannel(gid), "group_updated", None, TRUE) >>
               /\ last' = [req EXCEPT !.mid = nextMid]
               /\ reply' = NoReply
               /\ UNCHANGED <<groups, nextGid, layer, chatVars, contactVars, inflight>>

\* has_edit_delete_permission(group, user, message)
HasEditDeletePermission(grp, u, msg) ==
    \/ (msg.sender # None /\ msg.sender = u)
    \/ u \in grp.admins
    \/ grp.creator = u

\* receive(), type 'delete_message'
WsDeleteMessage(s, g, m) ==
    LET gid == FrameGroup(s, g)
        req == WsReq("delete_message", s, gid, m, "", "")
        u == sessions[s].user
    IN  /\ s \in DOMAIN sessions
        /\ sessions[s].consumer = "groups"
        /\ IF gid = None THEN FrameError(req, "No group_id provided")
           ELSE IF gid \notin DOMAIN groups
               THEN FrameError(req, "Failed to process text data")
           ELSE IF ~InGroup(m, gid) THEN FrameError(req, "Message not found")
           ELSE IF ~HasEditDeletePermission(groups[gid], u, gmsgs[m])
               THEN FrameError(req, "You are not authorized to delete this message")
           ELSE
               /\ gmsgs' = GroupMessageDeleted(m)
               /\ bus' = << DeletedEvent(GroupChannel(gid), m, TRUE) >>
                         \o (IF gmsgs[m].sender # None /\ gmsgs[m].sender # u
                             THEN << DeletedEvent(UserChannel(gmsgs[m].sender),
                                                  m, TRUE) >>
                             ELSE << >>)
               /\ last' = req
               /\ reply' = NoReply
               /\ UNCHANGED <<groups, nextGid, nextMid, wsVars, chatVars, contactVars, inflight>>

\* receive(), types 'pin_message' and 'unpin_message'
WsSetPinned(s, g, m, pinned) ==
    LET gid == FrameGroup(s, g)
        req == WsReq(IF pinned THEN "pin_message" ELSE "unpin_message",
                     s, gid, m, "", "")
        u == sessions[s].user
    IN  /\ s \in DOMAIN sessions
        /\ sessions[s].consumer = "groups"
        /\ IF gid = None THEN FrameError(req, "No group_id provided")
           ELSE IF gid \notin DOMAIN groups
               THEN FrameError(req, "Failed to process text data")
           ELSE IF ~IsAdminOrCreator(groups[gid], u)
               THEN FrameError(req, IF pinned
                                      THEN "Only admins or creator can pin messages"
                                      ELSE "Only admins or creator can unpin messages")
           ELSE IF ~InGroup(m, gid) THEN FrameError(req, "Message not found")
           ELSE
               /\ gmsgs' = [gmsgs EXCEPT ![m].is_pinned = pinned]
               /\ bus' = << Event(GroupChannel(gid), "group_message", m, TRUE) >>
               /\ last' = req
               /\ reply' = NoReply
               /\ UNCHANGED <<groups, nextGid, nextMid, wsVars, chatVars, contactVars, inflight>>

WsPinMessage(s, g, m) == WsSetPinned(s, g, m, TRUE)

WsUnpinMessage(s, g, m) == WsSetPinned(s, g, m, FALSE)

\* Message ids a request may name: every id the table can hand out.
MsgIds == 1..MaxMsgs

\* ------------------------------------------------------------------ Next
Next ==
    \/ \E a \in Users, hasName \in BOOLEAN, ids \in SUBSET UserIds :
           CreateGroup(a, hasName, ids)
    \/ \E a \in Users, g \in GroupIds, t \in UserIds : AddMember(a, g, t)
    \/ \E a \in Users, g \in GroupIds, t \in UserIds : RemoveMember(a, g, t)
    \/ \E a \in Users, g \in GroupIds, t \in UserIds : AssignAdmin(a, g, t)
    \/ \E a \in Users, g \in GroupIds, t \in UserIds : RevokeAdmin(a, g, t)
    \/ \E a \in Users, g \in GroupIds, t \in UserIds : TransferOwnership(a, g, t)
    \/ \E a \in Users, g \in GroupIds : LeaveGroup(a, g)
    \/ \E a \in Users, g \in GroupIds : DeleteGroup(a, g)

Spec == Init /\ [][Next]_vars

\* ------------------------------------------------------------- NextPin
\* Who may change a group's members and pins: the REST views and the
\* websocket frames that do it.
FrameGroupIds == GroupIds \cup {None}

NextPin ==
    \/ \E a \in Users, ids \in SUBSET Users : CreateGroup(a, TRUE, ids)
    \/ \E a \in Users, g \in GroupIds, t \in Users : AddMember(a, g, t)
    \/ \E a \in Users, g \in GroupIds, t \in Users : RemoveMember(a, g, t)
    \/ \E a \in Users, g \in GroupIds, m \in MsgIds : PinMessage(a, g, m)
    \/ \E a \in Users, g \in GroupIds, m \in MsgIds : UnpinMessage(a, g, m)
    \/ \E tok \in UserIds \cup {None}, g \in FrameGroupIds :
           sessions = << >> /\ GroupsConnect(tok, g)
    \/ \E s \in SessionIds : Disconnect(s)
    \/ \E s \in SessionIds, g \in FrameGroupIds, m \in MsgIds : WsPinMessage(s, g, m)
    \/ \E s \in SessionIds, g \in FrameGroupIds, m \in MsgIds : WsUnpinMessage(s, g, m)

SpecPin == Init /\ [][NextPin]_vars

\* ------------------------------------------------------------- NextWs
\* Message traffic on the group websocket, next to the REST views that
\* change who is a member and which messages exist.
NextWs ==
    \/ \E a \in Users, ids \in SUBSET Users : CreateGroup(a, TRUE, ids)
    \/ \E a \in Users, g \in GroupIds, t \in Users : RemoveMember(a, g, t)
    \/ \E a \in Users, g \in GroupIds, m \in MsgIds : DeleteGroupMessage(a, g, m)
    \/ \E tok \in UserIds \cup {None}, g \in FrameGroupIds :
           sessions = << >> /\ GroupsConnect(tok, g)
    \/ \E s \in SessionIds : Disconnect(s)
    \/ \E s \in SessionIds, g \in FrameGroupIds, b \in Bodies, c \in ClientIds :
           WsGroupMessage(s, g, b, c)
    \/ \E s \in SessionIds, g \in FrameGroupIds, m \in MsgIds : WsDeleteMessage(s, g, m)

SpecWs == Init /\ [][NextWs]_vars

\* ======================================================================
\* chat/consumers.py: ChatConsumer (direct chat)
\* ======================================================================
\* room_group_name = f"chat_{min(sender, receiver)}_{max(sender, receiver)}"
RoomGroupName(a, b) ==
    <<"chat", IF a <= b THEN a ELSE b, IF a <= b THEN b ELSE a>>

\* connect(): tok is the user id the token carries (None: no token in the
\* query string), sender_id and receiver_id are the ids of the route.
ChatConnect(tok, sender_id, receiver_id) ==
    LET req == [Req("connect", "ws", tok, None, receiver_id, None, "")
                   EXCEPT !.sid = FreeSid]
        room == RoomGroupName(sender_id, receiver_id)
    IN  /\ SessionIds \ DOMAIN sessions # {}
        /\ IF tok = None THEN Refuse(req, 1008)
           ELSE IF tok \notin Users THEN Refuse(req, 1008)
           ELSE IF tok # sender_id THEN Refuse(req, 1008)
           ELSE
               /\ sessions' = sessions @@ (FreeSid :>
                      [consumer |-> "chat", user |-> tok,
                       sender_id |-> sender_id, receiver_id |-> receiver_id,
                       room_group_name |-> room])
               /\ layer' = layer \cup {<<room, FreeSid>>}
               /\ last' = req
               /\ reply' = NoReply
               /\ bus' = << >>
               /\ UNCHANGED <<dbVars, chatVars, contactVars, inflight>>

\* disconnect(): group_discard(room_group_name).
ChatDisconnect(s) ==
    /\ s \in DOMAIN sessions
    /\ sessions[s].consumer = "chat"
    /\ layer' = layer \ {<<sessions[s].room_group_name, s>>}
    /\ sessions' = Without(sessions, {s})
    /\ last' = [WsReq("disconnect", s, None, None, "", "")
                   EXCEPT !.target = sessions[s].receiver_id]
    /\ reply' = NoReply
    /\ bus' = << >>
    /\ UNCHANGED <<dbVars, chatVars, contactVars, inflight>>

\* Message.objects.filter(message_id=message_id).exists()
MessageIdExists(cid) == \E i \in DOMAIN dmsgs : dmsgs[i].message_id = cid

\* The row Message.objects.create(...) inserts.
NewMessage(cid, sender, receiver, content) ==
    [message_id |-> cid, sender |-> sender, receiver |-> receiver,
     content |-> content]

\* receive() of a frame that has a "message" key: body is its message, cid
\* its message_id ("" when the frame has none).  save_encrypted_message
\* raises ValueError("message_id must be unique") when a row has the id,
\* and the handler's `except Exception` sends {"error": str(e)}.
ChatMessageFrame(s, body, cid) ==
    LET req == [WsReq("create_message", s, None, None, cid, body)
                   EXCEPT !.target = sessions[s].receiver_id]
    IN  /\ s \in DOMAIN sessions
        /\ sessions[s].consumer = "chat"
        /\ IF body = "" THEN FrameError(req, "Message cannot be empty")
           ELSE IF cid = "" THEN FrameError(req, "message_id is required")
           ELSE IF sessions[s].receiver_id \notin Users
               THEN FrameError(req, "User does not exist")
           ELSE IF MessageIdExists(cid)
               THEN FrameError(req, "message_id must be unique")
           ELSE
               /\ dmsgs' = Append(dmsgs, NewMessage(cid, sessions[s].sender_id,
                                            sessions[s].receiver_id, body))
               /\ bus' = << Event(sessions[s].room_group_name, "chat_message",
                                  Len(dmsgs) + 1, FALSE) >>
               /\ last' = [req EXCEPT !.mid = Len(dmsgs) + 1]
               /\ reply' = NoReply
               /\ UNCHANGED <<dbVars, wsVars, rooms, cmsgs, inflight, contactVars>>

\* receive() of {"type": "ping"}: a pong to the sender, nothing else.
ChatPing(s) ==
    /\ s \in DOMAIN sessions
    /\ sessions[s].consumer = "chat"
    /\ last' = [WsReq("ping", s, None, None, "", "")
                   EXCEPT !.target = sessions[s].receiver_id]
    /\ reply' = [kind |-> "pong", status |-> 0, error |-> ""]
    /\ bus' = << >>
    /\ UNCHANGED <<dbVars, wsVars, chatVars, contactVars, inflight>>

\* ---------------------------------------------------------- NextDirect
\* Direct chat over the websocket.
NextDirect ==
    \/ \E tok \in UserIds \cup {None}, a \in UserIds, b \in UserIds :
           sessions = << >> /\ ChatConnect(tok, a, b)
    \/ \E s \in SessionIds : ChatDisconnect(s)
    \/ \E s \in SessionIds, b \in Bodies, c \in ClientIds : ChatMessageFrame(s, b, c)
    \/ \E s \in SessionIds : ChatPing(s)

SpecDirect == Init /\ [][NextDirect]_vars

\* ======================================================================
\* groups/views.py under concurrent requests
\* ======================================================================
\* The views run outside any transaction: another request can run between
\* the queries of a view.  A view is cut in two here, after its last check
\* and before its first write; `inflight` keeps the request and the row
\* fields of the Group instance it loaded.  One view is held at the cut
\* while other requests run from start to end, which gives every way two
\* requests can overlap at the cut.
Workers == {1}

\* The worker that takes the view to be held: the first idle one.
FreeWorker == CHOOSE w \in Workers \ DOMAIN inflight :
                  \A v \in Workers \ DOMAIN inflight : w <= v

\* The view passed its checks on worker w; nothing was written or sent yet.
Loaded(w, req, grp) ==
    /\ inflight' = inflight @@ (w :> [req |-> req, creator |-> grp.creator])
    /\ UNCHANGED <<dbVars, wsVars, chatVars, contactVars, last, reply, bus>>

\* AssignAdminView.post up to `group.admins.add(user)`.
AssignAdminBegin(a, g, t) ==
    /\ Workers \ DOMAIN inflight # {}
    /\ IF \/ g \notin DOMAIN groups \/ t \notin Users
          \/ ~IsOwner(groups[g], a)
          \/ t \notin groups[g].members
          \/ t \in groups[g].admins
       THEN AssignAdmin(a, g, t)
       ELSE Loaded(FreeWorker, Req("assign_admin", "rest", a, g, t, None, ""), groups[g])

\* RemoveMemberFromGroupView.post up to `group.members.remove(user)`.
RemoveMemberBegin(a, g, t) ==
    /\ Workers \ DOMAIN inflight # {}
    /\ IF \/ g \notin DOMAIN groups \/ t \notin Users
          \/ ~RemoveMemberAllowed(groups[g], a)
          \/ t \notin groups[g].members
          \/ t = groups[g].creator
       THEN RemoveMember(a, g, t)
       ELSE Loaded(FreeWorker, Req("remove_member", "rest", a, g, t, None, ""), groups[g])

\* LeaveGroupView.post up to `group.members.remove(request.user)`.
LeaveGroupBegin(a, g) ==
    /\ Workers \ DOMAIN inflight # {}
    /\ IF \/ g \notin DOMAIN groups
          \/ a \notin groups[g].members
          \/ a = groups[g].creator
       THEN LeaveGroup(a, g)
       ELSE Loaded(FreeWorker, Req("leave_group", "rest", a, g, a, None, ""), groups[g])

\* TransferOwnershipView.post up to `group.creator = new_owner`.
TransferOwnershipBegin(a, g, n) ==
    /\ Workers \ DOMAIN inflight # {}
    /\ IF \/ g \notin DOMAIN groups \/ n \notin Users
          \/ ~IsOwner(groups[g], a)
          \/ n = groups[g].creator
          \/ ~TransferTargetIsMember(groups[g], n)
       THEN TransferOwnership(a, g, n)
       ELSE Loaded(FreeWorker, Req("transfer_ownership", "rest", a, g, n, None, ""), groups[g])

\* The many-to-many writes of the view go to the rows as they are now;
\* group.save() then writes the columns of the instance loaded earlier, the
\* creator among them.
Written(f, grp) ==
    LET r == f.req
        m2m == CASE r.op = "assign_admin" ->
                      [grp EXCEPT !.admins = @ \cup {r.target}]
                 [] r.op \in {"remove_member", "leave_group"} ->
                      [grp EXCEPT !.members = @ \ {r.target},
                                  !.admins = @ \ {r.target}]
                 [] r.op = "transfer_ownership" ->
                      [grp EXCEPT !.admins = (@ \cup {r.target}) \cup {r.actor}]
    IN  [m2m EXCEPT !.creator = IF r.op = "transfer_ownership"
                                THEN r.target ELSE f.creator]

\* The text of the system message each view stores.
SystemText(op) ==
    CASE op = "assign_admin" -> "granted"
      [] op = "remove_member" -> "removed"
      [] op = "leave_group" -> "left"
      [] op = "transfer_ownership" -> "transferred"

\* The rest of the view on worker w: writes, save, system message, events,
\* response.  No view of this part deletes a group.
Finish(w) ==
    /\ w \in DOMAIN inflight
    /\ LET f == inflight[w] IN
       /\ f.req.group \in DOMAIN groups
       /\ AdminWrites(f.req, f.req.group, Written(f, groups[f.req.group]),
                      SystemText(f.req.op), f.req.target, 200)
    /\ inflight' = Without(inflight, {w})

\* ------------------------------------------------------------ NextConc
NextConc ==
    \/ \E a \in Users, ids \in SUBSET Users : CreateGroup(a, TRUE, ids)
    \/ \E a \in Users, g \in GroupIds, t \in Users : AddMember(a, g, t)
    \/ \E a \in Users, g \in GroupIds, t \in Users : AssignAdminBegin(a, g, t)
    \/ \E a \in Users, g \in GroupIds, t \in Users : RemoveMemberBegin(a, g, t)
    \/ \E a \in Users, g \in GroupIds : LeaveGroupBegin(a, g)
    \/ \E a \in Users, g \in GroupIds, t \in Users : TransferOwnershipBegin(a, g, t)
    \/ \E w \in Workers : Finish(w)
    \/ \E a \in Users, g \in GroupIds, t \in Users : RemoveMember(a, g, t)
    \/ \E a \in Users, g \in GroupIds : LeaveGroup(a, g)
    \/ \E a \in Users, g \in GroupIds, t \in Users : TransferOwnership(a, g, t)

SpecConc == Init /\ [][NextConc]_vars

\* ======================================================================
\* chat/views.py: group chat rooms (ChatRoom)
\* ======================================================================
\* Largest number of ChatMessage rows ever inserted.
MaxChatMsgs == 3

\* Room ids the id sequence of ChatRoom may hand out.
RoomIds == {1}

\* The `action` values a manage-group-member request may carry; "" is an
\* absent action, "ban" one the view does not know.
Actions == {"add", "remove", "promote", "demote", "ban", ""}

\* A ChatMessage row with message_type "system".
SystemMessage(r, sender, content, subj) ==
    [chat |-> r, sender |-> sender, content |-> content, subj |-> subj,
     message_type |-> "system", is_deleted |-> FALSE, seen_by |-> {},
     reactions |-> << >>, edited_at |-> None]

\* create_group_chat: hasName says whether the body has a name, ids are the
\* member ids it lists.
CreateGroupChat(a, hasName, ids) ==
    LET req == Req("create_group_chat", "rest", a, None, None, None, "")
        found == ids \cap Users
        r == Cardinality(DOMAIN rooms) + 1
    IN  IF ~hasName \/ ids = {}
            THEN Reject(req, 400, "Group name and at least one member required")
        ELSE IF found = {} THEN Reject(req, 400, "No valid members found")
        ELSE
            /\ r \in RoomIds
            /\ Len(cmsgs) < MaxChatMsgs
            /\ rooms' = rooms @@ (r :> [is_group |-> TRUE, admins |-> {a},
                                        members |-> found \cup {a}])
            /\ cmsgs' = Append(cmsgs, SystemMessage(r, a, "created", None))
            /\ last' = [req EXCEPT !.group = r]
            /\ reply' = Http(201, "")
            /\ bus' = << >>
            /\ UNCHANGED <<dbVars, wsVars, dmsgs, inflight, contactVars>>

\* ChatRoom.objects.get(id=chat_id, admins=request.user) finds a row.
RoomAdministeredBy(r, a) == r \in DOMAIN rooms /\ a \in rooms[r].admins

\* The room after the branch of manage_group_member that `action` selects.
Managed(room, action, t) ==
    CASE action = "add" -> [room EXCEPT !.members = @ \cup {t}]
      [] action = "remove" -> [room EXCEPT !.members = @ \ {t}]
      [] action = "promote" -> [room EXCEPT !.admins = @ \cup {t}]
      [] action = "demote" -> [room EXCEPT !.admins = @ \ {t}]

\* The system message of each branch.
ManagedText(action) ==
    CASE action = "add" -> "added"
      [] action = "remove" -> "removed"
      [] action = "promote" -> "promoted"
      [] action = "demote" -> "demoted"

\* manage_group_member: t is the member_id of the body, None when absent.
ManageGroupMember(a, r, action, t) ==
    LET req == Req(IF action = "" THEN "manage_group_member" ELSE action,
                   "rest", a, r, t, None, "") IN
    IF action = "" \/ t = None
        THEN Reject(req, 400, "Action and member ID required")
    ELSE IF ~RoomAdministeredBy(r, a)
        THEN Reject(req, 404, "Chat not found or unauthorized")
    ELSE IF t \notin Users THEN Reject(req, 404, "Member not found")
    ELSE IF action \notin {"add", "remove", "promote", "demote"}
        THEN Reject(req, 400, "Invalid action")
    ELSE
        /\ Len(cmsgs) < MaxChatMsgs
        /\ rooms' = [rooms EXCEPT ![r] = Managed(rooms[r], action, t)]
        /\ cmsgs' = Append(cmsgs, SystemMessage(r, a, ManagedText(action), t))
        /\ last' = req
        /\ reply' = Http(200, "")
        /\ bus' = << >>
        /\ UNCHANGED <<dbVars, wsVars, dmsgs, inflight, contactVars>>

\* ------------------------------------------------------------ NextRoom
NextRoom ==
    \/ \E a \in Users, hasName \in BOOLEAN, ids \in SUBSET UserIds :
           CreateGroupChat(a, hasName, ids)
    \/ \E a \in Users, r \in RoomIds, action \in Actions, t \in UserIds \cup {None} :
           ManageGroupMember(a, r, action, t)

SpecRoom == Init /\ [][NextRoom]_vars

\* ======================================================================
\* Editing and deleting messages
\* ======================================================================
\* New bodies an edit may carry; "" is an empty or absent body.
NewBodies == {"new", ""}

\* SendGroupMessageView.post: only members may send; the body is stored as
\* it comes.
SendGroupMessage(a, g, body) ==
    LET req == [Req("send_message", "rest", a, g, None, None, "")
                   EXCEPT !.body = body] IN
    IF g \notin DOMAIN groups THEN Reject(req, 404, "Group not found")
    ELSE IF a \notin groups[g].members
        THEN Reject(req, 403, "You are not a member of this group")
    ELSE
        /\ nextMid <= MaxMsgs
        /\ gmsgs' = gmsgs @@ (nextMid :> NewGroupMessage(g, a, body, None, None))
        /\ nextMid' = nextMid + 1
        /\ bus' = << Event(GroupChannel(g), "group_message", nextMid, FALSE) >>
        /\ last' = [req EXCEPT !.mid = nextMid]
        /\ reply' = Http(201, "")
        /\ UNCHANGED <<groups, nextGid, wsVars, chatVars, contactVars, inflight>>

\* EditGroupMessageView.patch
EditGroupMessage(a, g, m, new) ==
    LET req == [Req("edit_message", "rest", a, g, None, m, "")
                   EXCEPT !.body = new] IN
    IF g \notin DOMAIN groups THEN Reject(req, 404, "Group not found")
    ELSE IF ~InGroup(m, g) THEN Reject(req, 404, "Message not found")
    ELSE IF ~MayEditOrDelete(groups[g], gmsgs[m], a)
        THEN Reject(req, 403, "You are not authorized to edit this message")
    ELSE IF new = "" THEN Reject(req, 400, "New message content is required")
    ELSE
        /\ gmsgs' = [gmsgs EXCEPT ![m].text = new]
        /\ bus' = << Event(GroupChannel(g), "group_message", m, FALSE) >>
        /\ last' = req
        /\ reply' = Http(200, "")
        /\ UNCHANGED <<groups, nextGid, nextMid, wsVars, chatVars, contactVars, inflight>>

\* receive(), type 'edit_message': new is the frame's new_message, stored
\* without a check for emptiness.
WsEditMessage(s, g, m, new) ==
    LET gid == FrameGroup(s, g)
        req == WsReq("edit_message", s, gid, m, "", new)
        u == sessions[s].user
    IN  /\ s \in DOMAIN sessions
        /\ sessions[s].consumer = "groups"
        /\ IF gid = None THEN FrameError(req, "No group_id provided")
           ELSE IF gid \notin DOMAIN groups
               THEN FrameError(req, "Failed to process text data")
           ELSE IF ~InGroup(m, gid) THEN FrameError(req, "Message not found")
           ELSE IF ~HasEditDeletePermission(groups[gid], u, gmsgs[m])
               THEN FrameError(req, "You are not authorized to edit this message")
           ELSE
               /\ gmsgs' = [gmsgs EXCEPT ![m].text = new]
               /\ bus' = << Event(GroupChannel(gid), "group_message", m, TRUE) >>
               /\ last' = req
               /\ reply' = NoReply
               /\ UNCHANGED <<groups, nextGid, nextMid, wsVars, chatVars, contactVars, inflight>>

\* ChatMessage.objects.get(id=message_id, sender=request.user) finds a row.
OwnChatMessage(m, a) == m \in DOMAIN cmsgs /\ cmsgs[m].sender = a

\* timezone.now(): an instant, never null.
Now == 1

\* chat/views.py edit_message: ChatMessage.edit stores the new content and
\* the time of the edit.
EditMessage(a, m, new) ==
    LET req == [Req("edit_message", "rest", a, None, None, m, "")
                   EXCEPT !.body = new] IN
    IF new = "" THEN Reject(req, 400, "Content is required")
    ELSE IF ~OwnChatMessage(m, a)
        THEN Reject(req, 404, "Message not found or unauthorized")
    ELSE
        /\ cmsgs' = [cmsgs EXCEPT ![m].content = new, ![m].edited_at = Now]
        /\ last' = req
        /\ reply' = Http(200, "")
        /\ bus' = << >>
        /\ UNCHANGED <<dbVars, wsVars, dmsgs, rooms, inflight, contactVars>>

\* chat/views.py delete_message: ChatMessage.delete keeps the row, sets
\* is_deleted and replaces the content.
DeleteMessage(a, m) ==
    LET req == Req("delete_message", "rest", a, None, None, m, "") IN
    IF ~OwnChatMessage(m, a)
        THEN Reject(req, 404, "Message not found or unauthorized")
    ELSE
        /\ cmsgs' = [cmsgs EXCEPT ![m].is_deleted = TRUE,
                                  ![m].content = Tombstone]
        /\ last' = req
        /\ reply' = Http(204, "")
        /\ bus' = << >>
        /\ UNCHANGED <<dbVars, wsVars, dmsgs, rooms, inflight, contactVars>>

\* Ids a request may give for a ChatMessage.
ChatMsgIds == 1..MaxChatMsgs

\* ------------------------------------------------------------ NextEdit
\* The group tables and the chat tables share no row, so the requests of
\* the two apps commute; the chat requests are taken from the states in
\* which no group exists, and groups are created while no room exists.
\* Sockets are opened on the route of one group and stay open; user 1
\* creates the conversations and, as the owner, makes admins; the edits of
\* group messages carry a body.
NextEdit ==
    \/ \E ids \in SUBSET Users :
           rooms = << >> /\ CreateGroup(1, TRUE, ids)
    \/ \E g \in GroupIds, t \in Users : AssignAdmin(1, g, t)
    \/ \E a \in Users, g \in GroupIds : SendGroupMessage(a, g, "hi")
    \/ \E a \in Users, g \in GroupIds, m \in MsgIds :
           EditGroupMessage(a, g, m, "new")
    \/ \E a \in Users, g \in GroupIds, m \in MsgIds : DeleteGroupMessage(a, g, m)
    \/ \E tok \in Users, g \in GroupIds :
           sessions = << >> /\ rooms = << >> /\ GroupsConnect(tok, g)
    \/ \E s \in SessionIds, g \in GroupIds, m \in MsgIds :
           WsEditMessage(s, g, m, "new")
    \/ \E s \in SessionIds, g \in GroupIds, m \in MsgIds : WsDeleteMessage(s, g, m)
    \/ \E ids \in SUBSET Users :
           groups = << >> /\ sessions = << >> /\ CreateGroupChat(1, TRUE, ids)
    \/ \E a \in Users, m \in ChatMsgIds, b \in NewBodies :
           groups = << >> /\ EditMessage(a, m, b)
    \/ \E a \in Users, m \in ChatMsgIds :
           groups = << >> /\ DeleteMessage(a, m)

SpecEdit == Init /\ [][NextEdit]_vars

\* ======================================================================
\* Opening and closing websockets
\* ======================================================================
\* What a query string may carry as its token: the id of a user, the id of
\* no user (4: a token that does not validate), or nothing.
Tokens == UserIds \cup {None}

\* The group ids a websocket route may name; no group has the id 2.
RouteGroupIds == {1, 2}

\* chat/consumers.py GroupChatConsumer.connect: the route's group_id names
\* the channel; the token is validated and nothing else is looked up.
ChatGroupConnect(tok, g) ==
    LET req == [Req("connect", "ws_group_chat", tok, g, None, None, "")
                   EXCEPT !.sid = FreeSid]
    IN  /\ SessionIds \ DOMAIN sessions # {}
        /\ IF tok = None THEN Refuse(req, 1008)
           ELSE IF tok \notin Users THEN Refuse(req, 1008)
           ELSE
               /\ sessions' = sessions @@ (FreeSid :>
                      [consumer |-> "chatgroup", user |-> tok,
                       group_id |-> g, room_group_name |-> GroupChannel(g)])
               /\ layer' = layer \cup {<<GroupChannel(g), FreeSid>>}
               /\ last' = req
               /\ reply' = NoReply
               /\ bus' = << >>
               /\ UNCHANGED <<dbVars, chatVars, contactVars, inflight>>

\* chat/consumers.py GroupChatConsumer.disconnect
ChatGroupDisconnect(s) ==
    /\ s \in DOMAIN sessions
    /\ sessions[s].consumer = "chatgroup"
    /\ layer' = layer \ {<<sessions[s].room_group_name, s>>}
    /\ sessions' = Without(sessions, {s})
    /\ last' = [WsReq("disconnect", s, sessions[s].group_id, None, "", "")
                   EXCEPT !.via = "ws_group_chat"]
    /\ reply' = NoReply
    /\ bus' = << >>
    /\ UNCHANGED <<dbVars, chatVars, contactVars, inflight>>

\* group_name = f"profile_{self.user.id}"
ProfileChannel(u) == <<"profile", u>>

\* profiles/consumers.py ProfileConsumer.connect
ProfileConnect(tok) ==
    LET req == [Req("connect", "ws_profile", tok, None, None, None, "")
                   EXCEPT !.sid = FreeSid]
    IN  /\ SessionIds \ DOMAIN sessions # {}
        /\ IF tok = None THEN Refuse(req, 4001)
           ELSE IF tok \notin Users THEN Refuse(req, 4003)
           ELSE
               /\ sessions' = sessions @@ (FreeSid :>
                      [consumer |-> "profile", user |-> tok,
                       group_name |-> ProfileChannel(tok)])
               /\ layer' = layer \cup {<<ProfileChannel(tok), FreeSid>>}
               /\ last' = req
               /\ reply' = NoReply
               /\ bus' = << >>
               /\ UNCHANGED <<dbVars, chatVars, contactVars, inflight>>

\* profiles/consumers.py ProfileConsumer.disconnect
ProfileDisconnect(s) ==
    /\ s \in DOMAIN sessions
    /\ sessions[s].consumer = "profile"
    /\ layer' = layer \ {<<sessions[s].group_name, s>>}
    /\ sessions' = Without(sessions, {s})
    /\ last' = [WsReq("disconnect", s, None, None, "", "")
                   EXCEPT !.via = "ws_profile"]
    /\ reply' = NoReply
    /\ bus' = << >>
    /\ UNCHANGED <<dbVars, chatVars, contactVars, inflight>>

\* The handler raised; nothing was sent to the socket.
Raised(error) == [kind |-> "raised", status |-> 0, error |-> error]

\* What disconnect() does on the consumer whose connect() has just closed
\* the socket with `code` (req is that connect).  The instance has only
\* the attributes connect() set before it returned:
\*   groups.GroupChatConsumer: group_channels is [] from __init__, and
\*     self.user exists only when the token resolved (code 4004 and later);
\*     the closing logger.info reads self.user.id.
\*   ProfileConsumer: group_name is set after the last close(); disconnect
\*     reads it first.
\*   chat consumers: room_group_name is set first (None, or the name of a
\*     channel the socket never joined); disconnect reads nothing else.
DisconnectOutcome(req, code) ==
    CASE req.via = "ws_profile" -> Raised("AttributeError")
      [] req.via = "ws" /\ code \in {4001, 4003} -> Raised("AttributeError")
      [] OTHER -> NoReply

\* websocket.disconnect arrives for the connection that connect() refused.
RefusedDisconnect ==
    /\ last.op = "connect"
    /\ reply.kind = "close"
    /\ last' = [last EXCEPT !.op = "disconnect"]
    /\ reply' = DisconnectOutcome(last, reply.status)
    /\ bus' = << >>
    /\ UNCHANGED <<dbVars, wsVars, chatVars, contactVars, inflight>>

\* --------------------------------------------------------- NextConnect
NextConnect ==
    \/ \E a \in Users, ids \in SUBSET Users : CreateGroup(a, TRUE, ids)
    \/ \E tok \in Tokens, g \in RouteGroupIds \cup {None} :
           sessions = << >> /\ GroupsConnect(tok, g)
    \/ \E s \in SessionIds : Disconnect(s)
    \/ \E tok \in Tokens, a \in Users, b \in Users :
           sessions = << >> /\ ChatConnect(tok, a, b)
    \/ \E s \in SessionIds : ChatDisconnect(s)
    \/ \E tok \in Tokens, g \in RouteGroupIds :
           sessions = << >> /\ ChatGroupConnect(tok, g)
    \/ \E s \in SessionIds : ChatGroupDisconnect(s)
    \/ \E tok \in Tokens : sessions = << >> /\ ProfileConnect(tok)
    \/ \E s \in SessionIds : ProfileDisconnect(s)
    \/ RefusedDisconnect

SpecConnect == Init /\ [][NextConnect]_vars

\* ======================================================================
\* chat/views.py: SendMessageView (direct messages)
\* ======================================================================
\* Largest number of ChatRoom rows the sends may create.
MaxRooms == 2

\* ChatRoom.objects.filter(is_group=False, members=a).filter(members=b)
DirectRooms(a, b) ==
    {r \in DOMAIN rooms :
        ~rooms[r].is_group /\ a \in rooms[r].members /\ b \in rooms[r].members}

\* .first() of that query set (the row with the least id), None for no row.
FirstDirectRoom(a, b) ==
    IF DirectRooms(a, b) = {} THEN None
    ELSE CHOOSE r \in DirectRooms(a, b) : \A x \in DirectRooms(a, b) : r <= x

\* ChatRoom.objects.create(name="", is_group=False) followed by
\* members.add(request.user, receiver): the member set is a set.
NewDirectRoom(a, b) == [is_group |-> FALSE, admins |-> {}, members |-> {a, b}]

\* The ChatMessage row the view saves (message_type "text").
NewChatMessage(r, sender, content) ==
    [chat |-> r, sender |-> sender, content |-> content, subj |-> None,
     message_type |-> "text", is_deleted |-> FALSE, seen_by |-> {},
     reactions |-> << >>, edited_at |-> None]

\* The part of post() after the room lookup: found is what the lookup
\* returned.  A missing room is created, then the message is saved.
SendMessageWrites(req, found) ==
    LET r == IF found # None THEN found ELSE Cardinality(DOMAIN rooms) + 1 IN
    /\ Len(cmsgs) < MaxChatMsgs
    /\ found = None => r <= MaxRooms
    /\ rooms' = IF found # None THEN rooms
                ELSE rooms @@ (r :> NewDirectRoom(req.actor, req.target))
    /\ cmsgs' = Append(cmsgs, NewChatMessage(r, req.actor, req.body))
    /\ last' = [req EXCEPT !.group = r, !.mid = Len(cmsgs) + 1]
    /\ reply' = Http(201, "")
    /\ bus' = << >>
    /\ UNCHANGED <<dbVars, wsVars, dmsgs, contactVars>>

\* The request is one the view answers with an error before the lookup.
SendMessageRefused(rcv, content) ==
    rcv = None \/ content = "" \/ rcv \notin Users

\* SendMessageView.post for message_type "text" without attachment: rcv is
\* the body's receiver_id (None when absent), content its content.
SendMessage(a, rcv, content) ==
    LET req == [Req("send_direct", "rest", a, None, rcv, None, "")
                   EXCEPT !.body = content] IN
    IF rcv = None THEN Reject(req, 400, "Receiver ID is required")
    ELSE IF content = "" THEN Reject(req, 400, "Content or attachment is required")
    ELSE IF rcv \notin Users THEN Reject(req, 404, "Receiver not found")
    ELSE SendMessageWrites(req, FirstDirectRoom(a, rcv)) /\ UNCHANGED inflight

\* post() up to and including the room lookup; its result is held in the
\* request's group.
SendMessageBegin(a, rcv, content) ==
    /\ Workers \ DOMAIN inflight # {}
    /\ IF SendMessageRefused(rcv, content) THEN SendMessage(a, rcv, content)
       ELSE /\ inflight' = inflight @@ (FreeWorker :>
                   [req |-> [Req("send_direct", "rest", a,
                                 FirstDirectRoom(a, rcv), rcv, None, "")
                                EXCEPT !.body = content],
                    creator |-> None])
            /\ UNCHANGED <<dbVars, wsVars, chatVars, contactVars, last, reply, bus>>

\* The rest of the held post().
SendMessageFinish(w) ==
    /\ w \in DOMAIN inflight
    /\ inflight[w].req.op = "send_direct"
    /\ SendMessageWrites(inflight[w].req, inflight[w].req.group)
    /\ inflight' = Without(inflight, {w})

\* ------------------------------------------------------------ NextSend
NextSend ==
    \/ \E a \in Users, rcv \in UserIds \cup {None}, c \in Bodies :
           SendMessage(a, rcv, c)
    \/ \E a \in Users, rcv \in UserIds \cup {None}, c \in Bodies :
           SendMessageBegin(a, rcv, c)
    \/ \E w \in Workers : SendMessageFinish(w)

SpecSend == Init /\ [][NextSend]_vars

\* ======================================================================
\* Reactions and read receipts
\* ======================================================================
\* What a reaction request may carry; "" is an absent value.
Emojis == {"like", "love", ""}

\* Largest number of entries ChatMessage.reactions ever holds.
MaxReactions == 3

\* reactions[str(self.user.id)] = reaction on the dict of a GroupMessage.
Reacted(reactions, u, reaction) ==
    [x \in DOMAIN reactions \cup {u} |->
        IF x = u THEN reaction ELSE reactions[x]]

\* receive(), type 'reaction': the message is looked up by id alone and the
\* reaction is stored as it comes; the event goes to the channel of the
\* frame's group with the type of a new message.
WsReaction(s, g, m, reaction) ==
    LET gid == FrameGroup(s, g)
        req == WsReq("reaction", s, gid, m, "", reaction)
        u == sessions[s].user
    IN  /\ s \in DOMAIN sessions
        /\ sessions[s].consumer = "groups"
        /\ IF gid = None THEN FrameError(req, "No group_id provided")
           ELSE IF gid \notin DOMAIN groups
               THEN FrameError(req, "Failed to process text data")
           ELSE IF m \notin DOMAIN gmsgs THEN FrameError(req, "Message not found")
           ELSE
               /\ gmsgs' = [gmsgs EXCEPT
                               ![m].reactions = Reacted(@, u, reaction)]
               /\ bus' = << Event(GroupChannel(gid), "group_message", m, TRUE) >>
               /\ last' = req
               /\ reply' = NoReply
               /\ UNCHANGED <<groups, nextGid, nextMid, wsVars, chatVars, contactVars, inflight>>

\* receive(), type 'read_receipt': read_by.add(self.user).
WsReadReceipt(s, g, m) ==
    LET gid == FrameGroup(s, g)
        req == WsReq("read_receipt", s, gid, m, "", "")
        u == sessions[s].user
    IN  /\ s \in DOMAIN sessions
        /\ sessions[s].consumer = "groups"
        /\ IF gid = None THEN FrameError(req, "No group_id provided")
           ELSE IF gid \notin DOMAIN groups
               THEN FrameError(req, "Failed to process text data")
           ELSE IF m \notin DOMAIN gmsgs THEN FrameError(req, "Message not found")
           ELSE
               /\ gmsgs' = [gmsgs EXCEPT ![m].read_by = @ \cup {u}]
               /\ bus' = << Event(GroupChannel(gid), "read_receipt", m, TRUE) >>
               /\ last' = req
               /\ reply' = NoReply
               /\ UNCHANGED <<groups, nextGid, nextMid, wsVars, chatVars, contactVars, inflight>>

\* ChatMessage.objects.get(id=message_id, chat__members=request.user)
\* finds a row.
ChatMessageOfMember(m, a) ==
    /\ m \in DOMAIN cmsgs
    /\ cmsgs[m].chat \in DOMAIN rooms
    /\ a \in rooms[cmsgs[m].chat].members

\* ReactToMessageView.post: reactions is a list and the emoji is appended.
ReactToMessage(a, m, emoji) ==
    LET req == [Req("reaction", "rest", a, None, None, m, "")
                   EXCEPT !.body = emoji] IN
    IF emoji = "" THEN Reject(req, 400, "Emoji is required")
    ELSE IF ~ChatMessageOfMember(m, a) THEN Reject(req, 404, "Message not found")
    ELSE
        /\ Len(cmsgs[m].reactions) < MaxReactions
        /\ cmsgs' = [cmsgs EXCEPT ![m].reactions = Append(@, emoji)]
        /\ last' = req
        /\ reply' = Http(200, "")
        /\ bus' = << >>
        /\ UNCHANGED <<dbVars, wsVars, dmsgs, rooms, inflight, contactVars>>

\* MarkAsReadView.post: seen_by.add(request.user); nothing is published.
MarkAsRead(a, m) ==
    LET req == Req("read_receipt", "rest", a, None, None, m, "") IN
    IF ~ChatMessageOfMember(m, a) THEN Reject(req, 404, "Message not found")
    ELSE
        /\ cmsgs' = [cmsgs EXCEPT ![m].seen_by = @ \cup {a}]
        /\ last' = req
        /\ reply' = Http(200, "")
        /\ bus' = << >>
        /\ UNCHANGED <<dbVars, wsVars, dmsgs, rooms, inflight, contactVars>>

\* ----------------------------------------------------------- NextReact
\* The requests of the two apps commute (they share no row): the chat
\* requests are taken while no group exists and the group requests while
\* no room exists.  User 1 creates the conversations.
NextReact ==
    \/ \E ids \in SUBSET Users : rooms = << >> /\ CreateGroup(1, TRUE, ids)
    \/ \E tok \in Users, g \in FrameGroupIds :
           sessions = << >> /\ rooms = << >> /\ GroupsConnect(tok, g)
    \/ \E s \in SessionIds : Disconnect(s)
    \/ \E s \in SessionIds, g \in GroupIds, m \in MsgIds, e \in Emojis :
           WsReaction(s, g, m, e)
    \/ \E s \in SessionIds, g \in GroupIds, m \in MsgIds : WsReadReceipt(s, g, m)
    \/ \E ids \in SUBSET Users :
           groups = << >> /\ sessions = << >> /\ CreateGroupChat(1, TRUE, ids)
    \/ \E a \in Users, m \in ChatMsgIds, e \in Emojis :
           groups = << >> /\ ReactToMessage(a, m, e)
    \/ \E a \in Users, m \in ChatMsgIds : groups = << >> /\ MarkAsRead(a, m)

SpecReact == Init /\ [][NextReact]_vars

\* -------------------------------------------------------- NextEditBody
\* Edits of group messages with and without a new body, over REST and
\* over the websocket of one group.
NextEditBody ==
    \/ \E a \in Users, ids \in SUBSET Users : CreateGroup(a, TRUE, ids)
    \/ \E a \in Users, g \in GroupIds : SendGroupMessage(a, g, "hi")
    \/ \E tok \in Users, g \in GroupIds : sessions = << >> /\ GroupsConnect(tok, g)
    \/ \E s \in SessionIds : Disconnect(s)
    \/ \E a \in Users, g \in GroupIds, m \in MsgIds, b \in NewBodies :
           EditGroupMessage(a, g, m, b)
    \/ \E s \in SessionIds, g \in GroupIds, m \in MsgIds, b \in NewBodies :
           WsEditMessage(s, g, m, b)

SpecEditBody == Init /\ [][NextEditBody]_vars

\* ---------------------------------------------------------- NextFrames
\* Every kind of text frame of the two websocket consumers that stores
\* something, on one socket that stays open.  User 1 creates the group
\* with user 2 as a member; the direct sockets are opened while no group
\* exists.
\* The two publishes of the 'group_message' branch: the event of the new
\* message (group_send in receive) and the refreshed group
\* (broadcast_group_update).
PublishFaults == {"group_message", "group_updated"}

\* receive(), type 'group_message', when the channel layer raises in one
\* of its two publishes. The row is created before either. A failure of the
\* first publish leaves receive() through its catch-all handler, which
\* sends an error frame; a failure of the second is caught inside
\* broadcast_group_update, which only logs it.
WsGroupMessagePublishFails(s, g, body, cid, fault) ==
    LET gid == FrameGroup(s, g)
        req == [WsReq("create_message", s, gid, nextMid, cid, body)
                   EXCEPT !.fault = fault]
        u == sessions[s].user
    IN  /\ s \in DOMAIN sessions
        /\ sessions[s].consumer = "groups"
        /\ gid \in DOMAIN groups
        /\ body # ""
        /\ nextMid <= MaxMsgs
        /\ sessions' = [sessions EXCEPT ![s].pending = FALSE]
        /\ gmsgs' = gmsgs @@ (nextMid :>
               [NewGroupMessage(gid, u, body, None, None)
                   EXCEPT !.read_by = {u}])
        /\ nextMid' = nextMid + 1
        /\ last' = req
        /\ IF fault = "group_message"
           THEN /\ bus' = << >>
                /\ reply' = ErrorFrame("Failed to process text data")
           ELSE /\ bus' = << Event(GroupChannel(gid), "group_message", nextMid, TRUE) >>
                /\ reply' = NoReply
        /\ UNCHANGED <<groups, nextGid, layer, chatVars, contactVars, inflight>>

\* receive() on a frame whose 'type' is absent or is none of the types of
\* the if/elif chain: the group is looked up, no branch is taken, and the
\* handler returns without a frame, a row or an event.
WsUntypedFrame(s, g, body, cid) ==
    LET gid == FrameGroup(s, g)
        req == WsReq("untyped", s, gid, None, cid, body)
    IN  /\ s \in DOMAIN sessions
        /\ sessions[s].consumer = "groups"
        /\ IF gid = None THEN FrameError(req, "No group_id provided")
           ELSE IF gid \notin DOMAIN groups
               THEN FrameError(req, "Failed to process text data")
           ELSE
               /\ last' = req
               /\ reply' = NoReply
               /\ bus' = << >>
               /\ UNCHANGED <<dbVars, wsVars, chatVars, contactVars, inflight>>

NextFrames ==
    \/ sessions = << >> /\ CreateGroup(1, TRUE, {2})
    \/ \E tok \in Users, g \in FrameGroupIds : sessions = << >> /\ GroupsConnect(tok, g)
    \/ \E s \in SessionIds, g \in FrameGroupIds : WsGroupMessage(s, g, "hi", "c1")
    \/ \E s \in SessionIds, g \in FrameGroupIds, f \in PublishFaults :
           WsGroupMessagePublishFails(s, g, "hi", "c1", f)
    \/ \E s \in SessionIds, g \in FrameGroupIds : WsUntypedFrame(s, g, "hi", "c1")
    \/ \E s \in SessionIds, g \in FrameGroupIds, m \in MsgIds :
           WsEditMessage(s, g, m, "new")
    \/ \E s \in SessionIds, g \in FrameGroupIds, m \in MsgIds : WsDeleteMessage(s, g, m)
    \/ \E s \in SessionIds, g \in FrameGroupIds, m \in MsgIds : WsPinMessage(s, g, m)
    \/ \E s \in SessionIds, g \in FrameGroupIds, m \in MsgIds : WsUnpinMessage(s, g, m)
    \/ \E s \in SessionIds, g \in FrameGroupIds, m \in MsgIds :
           WsReaction(s, g, m, "like")
    \/ \E s \in SessionIds, g \in FrameGroupIds, m \in MsgIds : WsReadReceipt(s, g, m)
    \/ \E tok \in Users, b \in UserIds :
           sessions = << >> /\ groups = << >> /\ ChatConnect(tok, tok, b)
    \/ \E s \in SessionIds, b \in Bodies, c \in ClientIds : ChatMessageFrame(s, b, c)

SpecFrames == Init /\ [][NextFrames]_vars

\* ---------------------------------------------------------------------
\* Two sockets open at the same time
\* ---------------------------------------------------------------------

\* The websocket routes of the groups and the chat application with up to
\* two connections open at once: connects, text frames that create a
\* message, disconnects.
NextSessions ==
    \/ sessions = << >> /\ CreateGroup(1, TRUE, {2})
    \/ \E tok \in Users, g \in FrameGroupIds : GroupsConnect(tok, g)
    \/ \E s \in SessionIds : Disconnect(s)
    \/ \E s \in SessionIds, g \in FrameGroupIds : WsGroupMessage(s, g, "hi", "c1")
    \/ \E tok \in Users, b \in Users : ChatConnect(tok, tok, b)
    \/ \E s \in SessionIds : ChatDisconnect(s)
    \/ \E s \in SessionIds, c \in ClientIds : ChatMessageFrame(s, "hi", c)

SpecSessions == Init /\ [][NextSessions]_vars

\* ---------------------------------------------------------------------
\* Binary frames of the groups websocket
\* ---------------------------------------------------------------------

\* Sizes of a binary frame: within the limit of 10MB, and above it.
FileSizes == {"small", "oversize"}

\* receive(bytes_data): the attachment of the metadata kept by the last
\* 'group_message' text frame without a message. Without pending metadata
\* the frame is dropped. The early returns (here the size limit) leave
\* pending_metadata as it is; the end of the try block and the catch-all
\* handler reset it.
WsBinaryFrame(s, size) ==
    LET gid == sessions[s].pending_group
        req == WsReq("binary", s, gid, None, "", size)
        u == sessions[s].user
    IN  /\ s \in DOMAIN sessions
        /\ sessions[s].consumer = "groups"
        /\ IF ~sessions[s].pending
           THEN /\ last' = [req EXCEPT !.group = None]
                /\ reply' = NoReply
                /\ bus' = << >>
                /\ UNCHANGED <<dbVars, wsVars, chatVars, contactVars, inflight>>
           ELSE IF gid \notin DOMAIN groups
               THEN /\ sessions' = [sessions EXCEPT ![s].pending = FALSE]
                    /\ last' = req
                    /\ reply' = ErrorFrame("Failed to process file")
                    /\ bus' = << >>
                    /\ UNCHANGED <<dbVars, layer, chatVars, contactVars, inflight>>
           ELSE IF size = "oversize"
               THEN FrameError(req, "File size exceeds 10MB limit")
           ELSE
               /\ nextMid <= MaxMsgs
               /\ sessions' = [sessions EXCEPT ![s].pending = FALSE]
               /\ gmsgs' = gmsgs @@ (nextMid :>
                      [NewGroupMessage(gid, u, "", None, None)
                          EXCEPT !.read_by = {u}])
               /\ nextMid' = nextMid + 1
               /\ bus' = << Event(GroupChannel(gid), "group_message", nextMid, TRUE),
                            Event(GroupChannel(gid), "group_updated", None, TRUE) >>
               /\ last' = [req EXCEPT !.mid = nextMid]
               /\ reply' = NoReply
               /\ UNCHANGED <<groups, nextGid, layer, chatVars, contactVars, inflight>>

\* The groups websocket with text frames that create a message or leave
\* metadata, and binary frames; the owner may delete the group meanwhile.
NextBinary ==
    \/ \E ids \in SUBSET {2, 3} : CreateGroup(1, TRUE, ids)
    \/ \E g \in GroupIds : DeleteGroup(1, g)
    \/ \E tok \in Users, g \in FrameGroupIds : sessions = << >> /\ GroupsConnect(tok, g)
    \/ \E s \in SessionIds : Disconnect(s)
    \/ \E s \in SessionIds, g \in FrameGroupIds, b \in Bodies :
           WsGroupMessage(s, g, b, "c1")
    \/ \E s \in SessionIds, size \in FileSizes : WsBinaryFrame(s, size)

SpecBinary == Init /\ [][NextBinary]_vars

\* ---------------------------------------------------------------------
\* contacts: friend requests and contact lists (REST views and
\* ContactConsumer)
\* ---------------------------------------------------------------------

\* Rows the FriendRequest table may get.
MaxRequests == 2
RequestIds == 1..MaxRequests

\* FriendRequest.objects.filter(sender=a, receiver=b, accepted=False).exists()
PendingRequest(a, b) ==
    \E r \in DOMAIN requests :
        /\ requests[r].sender = a /\ requests[r].receiver = b
        /\ ~requests[r].accepted

\* notify_users(channel_layer, user_id, event): group_send to user_<id>.
\* The events of the views carry no event_id.
Notify(u, type, rid) == Event(UserChannel(u), type, rid, FALSE)

\* SendFriendRequestView.post
SendFriendRequest(a, t) ==
    LET req == Req("friend_request", "rest", a, None, t, None, "") IN
    IF t \notin Users THEN Reject(req, 404, "User not found")
    ELSE IF t = a THEN Reject(req, 400, "You cannot send a request to yourself")
    ELSE IF <<a, t>> \in contacts THEN Reject(req, 400, "You are already friends")
    ELSE IF PendingRequest(a, t) THEN Reject(req, 400, "Friend request already sent")
    ELSE IF PendingRequest(t, a)
        THEN Reject(req, 400, "You have a pending friend request from this user")
    ELSE
        /\ nextRid <= MaxRequests
        /\ requests' = requests @@ (nextRid :>
               [sender |-> a, receiver |-> t, accepted |-> FALSE])
        /\ nextRid' = nextRid + 1
        /\ bus' = << Notify(t, "friend_request_received", nextRid),
                     Notify(a, "friend_request_sent", nextRid) >>
        /\ last' = [req EXCEPT !.mid = nextRid]
        /\ reply' = Http(201, "")
        /\ UNCHANGED <<dbVars, wsVars, chatVars, contacts, inflight>>

\* FriendRequest.objects.get(id=request_id, receiver=request.user,
\* accepted=False) finds a row.
PendingFor(r, a) ==
    /\ r \in DOMAIN requests
    /\ requests[r].receiver = a
    /\ ~requests[r].accepted

\* AcceptFriendRequestView.post
AcceptFriendRequest(a, r) ==
    LET req == Req("accept_request", "rest", a, None, None, r, "") IN
    IF ~PendingFor(r, a)
    THEN Reject(req, 404, "Friend request not found or already processed")
    ELSE
        LET snd == requests[r].sender IN
        /\ requests' = [requests EXCEPT ![r].accepted = TRUE]
        /\ contacts' = contacts \cup {<<a, snd>>, <<snd, a>>}
        /\ bus' = << Notify(snd, "friend_request_accepted", r),
                     Notify(a, "friend_request_accepted", r) >>
        /\ last' = [req EXCEPT !.target = snd]
        /\ reply' = Http(200, "")
        /\ UNCHANGED <<dbVars, wsVars, chatVars, nextRid, inflight>>

\* RejectFriendRequestView.post
RejectFriendRequest(a, r) ==
    LET req == Req("reject_request", "rest", a, None, None, r, "") IN
    IF ~PendingFor(r, a)
    THEN Reject(req, 404, "Friend request not found or already processed")
    ELSE
        LET snd == requests[r].sender IN
        /\ requests' = Without(requests, {r})
        /\ bus' = << Notify(snd, "friend_request_rejected", r),
                     Notify(a, "friend_request_rejected", r) >>
        /\ last' = [req EXCEPT !.target = snd]
        /\ reply' = Http(200, "")
        /\ UNCHANGED <<dbVars, wsVars, chatVars, nextRid, contacts, inflight>>

\* AddFriendView.post: both Contact rows at once, and a 'friend_added'
\* event for each of the two users.
AddFriend(a, t) ==
    LET req == Req("add_friend", "rest", a, None, t, None, "") IN
    IF t \notin Users THEN Reject(req, 404, "User not found")
    ELSE IF t = a THEN Reject(req, 400, "You cannot add yourself as a friend")
    ELSE IF <<a, t>> \in contacts THEN Reject(req, 400, "You are already friends")
    ELSE
        /\ contacts' = contacts \cup {<<a, t>>, <<t, a>>}
        /\ bus' = << Notify(a, "friend_added", None),
                     Notify(t, "friend_added", None) >>
        /\ last' = req
        /\ reply' = Http(201, "")
        /\ UNCHANGED <<dbVars, wsVars, chatVars, requests, nextRid, inflight>>

\* RemoveFriendView.delete
RemoveFriend(a, t) ==
    LET req == Req("remove_friend", "rest", a, None, t, None, "") IN
    IF <<a, t>> \notin contacts
    THEN Reject(req, 404, "Friend not found in your contacts")
    ELSE
        /\ contacts' = contacts \ {<<a, t>>, <<t, a>>}
        /\ bus' = << Notify(a, "friend_removed", None),
                     Notify(t, "friend_removed", None) >>
        /\ last' = req
        /\ reply' = Http(200, "")
        /\ UNCHANGED <<dbVars, wsVars, chatVars, requests, nextRid, inflight>>

\* ContactConsumer.connect: the socket joins user_<id> of the token's user.
ContactConnect(tok) ==
    LET req == [Req("connect", "ws_contacts", tok, None, None, None, "")
                   EXCEPT !.sid = FreeSid]
    IN  /\ SessionIds \ DOMAIN sessions # {}
        /\ IF tok = None THEN Refuse(req, 4001)
           ELSE IF tok \notin Users THEN Refuse(req, 4003)
           ELSE
               /\ sessions' = sessions @@ (FreeSid :>
                      [consumer |-> "contacts", user |-> tok,
                       group_name |-> UserChannel(tok)])
               /\ layer' = layer \cup {<<UserChannel(tok), FreeSid>>}
               /\ last' = req
               /\ reply' = NoReply
               /\ bus' = << >>
               /\ UNCHANGED <<dbVars, chatVars, contactVars, inflight>>

\* ContactConsumer.disconnect
ContactDisconnect(s) ==
    /\ s \in DOMAIN sessions
    /\ sessions[s].consumer = "contacts"
    /\ layer' = layer \ {<<sessions[s].group_name, s>>}
    /\ sessions' = Without(sessions, {s})
    /\ last' = [WsReq("disconnect", s, None, None, "", "")
                   EXCEPT !.via = "ws_contacts"]
    /\ reply' = NoReply
    /\ bus' = << >>
    /\ UNCHANGED <<dbVars, chatVars, contactVars, inflight>>

\* A frame of the contacts websocket.
ContactReq(op, s, t, r) ==
    [WsReq(op, s, None, r, "", "") EXCEPT !.via = "ws_contacts", !.target = t]

\* receive() has no handler for exceptions other than DoesNotExist: the
\* exception leaves the consumer, the server closes the socket, and the
\* channel of the instance is gone with it.
ContactRaises(req, s, error) ==
    /\ sessions' = Without(sessions, {s})
    /\ layer' = {e \in layer : e[2] # s}
    /\ last' = req
    /\ reply' = Raised(error)
    /\ bus' = << >>

\* receive(), type 'friend_request'. After the receiver is found and is
\* not the sender, the handler evaluates
\*   await database_sync_to_async(Contact.objects.filter)(...).aexists()
\* which takes .aexists of a coroutine object and raises.
WsFriendRequest(s, t) ==
    LET req == ContactReq("friend_request", s, t, None) IN
    /\ s \in DOMAIN sessions
    /\ sessions[s].consumer = "contacts"
    /\ IF t \notin Users THEN FrameError(req, "User not found")
       ELSE IF t = sessions[s].user
           THEN FrameError(req, "You cannot send a request to yourself")
       ELSE /\ ContactRaises(req, s, "AttributeError")
            /\ UNCHANGED <<dbVars, chatVars, contactVars, inflight>>

\* receive(), type 'friend_request_accepted'. The request is looked up by
\* id and accepted=False alone, marked accepted and saved. The
\* get_or_create that follows raises before it runs: its arguments read
\* the lazy relation friend_request.receiver on the event loop
\* (SynchronousOnlyOperation), and where the process allows that
\* (async_unsafe) the call subscripts a coroutine object (TypeError). No
\* Contact row is written and nothing is published.
WsAcceptFriendRequest(s, r, async_unsafe) ==
    LET req == ContactReq("accept_request", s, None, r) IN
    /\ s \in DOMAIN sessions
    /\ sessions[s].consumer = "contacts"
    /\ IF ~(r \in DOMAIN requests /\ ~requests[r].accepted)
       THEN FrameError(req, "Friend request not found or already processed")
       ELSE /\ requests' = [requests EXCEPT ![r].accepted = TRUE]
            /\ ContactRaises([req EXCEPT !.target = requests[r].sender], s,
                             IF async_unsafe THEN "TypeError"
                             ELSE "SynchronousOnlyOperation")
            /\ UNCHANGED <<dbVars, chatVars, nextRid, contacts, inflight>>

\* receive(), type 'friend_request_rejected'. The request is looked up by
\* id and accepted=False alone. friend_request.sender is a lazy relation
\* read on the event loop: Django raises SynchronousOnlyOperation unless
\* the process runs with DJANGO_ALLOW_ASYNC_UNSAFE (async_unsafe), in which
\* case the row is deleted and both events go out.
WsRejectFriendRequest(s, r, async_unsafe) ==
    LET req == ContactReq("reject_request", s, None, r) IN
    /\ s \in DOMAIN sessions
    /\ sessions[s].consumer = "contacts"
    /\ IF ~(r \in DOMAIN requests /\ ~requests[r].accepted)
       THEN FrameError(req, "Friend request not found or already processed")
       ELSE IF ~async_unsafe
           THEN /\ ContactRaises([req EXCEPT !.target = requests[r].sender], s,
                                 "SynchronousOnlyOperation")
                /\ UNCHANGED <<dbVars, chatVars, contactVars, inflight>>
       ELSE
           /\ requests' = Without(requests, {r})
           /\ bus' = << Event(UserChannel(requests[r].sender),
                              "friend_request_rejected", r, TRUE),
                        Event(UserChannel(sessions[s].user),
                              "friend_request_rejected", r, TRUE) >>
           /\ last' = [req EXCEPT !.target = requests[r].sender]
           /\ reply' = NoReply
           /\ UNCHANGED <<dbVars, wsVars, chatVars, nextRid, contacts, inflight>>

\* The REST views and the websocket of the contacts app.
NextContacts ==
    \/ \E a \in Users, t \in UserIds : SendFriendRequest(a, t)
    \/ \E a \in Users, r \in RequestIds : AcceptFriendRequest(a, r)
    \/ \E a \in Users, r \in RequestIds : RejectFriendRequest(a, r)
    \/ \E a \in Users, t \in UserIds : AddFriend(a, t)
    \/ \E a \in Users, t \in UserIds : RemoveFriend(a, t)
    \/ \E tok \in Tokens : sessions = << >> /\ ContactConnect(tok)
    \/ \E s \in SessionIds : ContactDisconnect(s)
    \/ \E s \in SessionIds, t \in UserIds : WsFriendRequest(s, t)
    \/ \E s \in SessionIds, r \in RequestIds, u \in BOOLEAN :
           WsAcceptFriendRequest(s, r, u)
    \/ \E s \in SessionIds, r \in RequestIds, u \in BOOLEAN :
           WsRejectFriendRequest(s, r, u)

SpecContacts == Init /\ [][NextContacts]_vars

\* ---------------------------------------------------------------------
\* Relay of published events by the subscribed consumers
\* ---------------------------------------------------------------------

\* The event types a consumer class has a handler method for.
Handlers(consumer) ==
    CASE consumer = "groups" ->
             {"group_message", "group_message_deleted", "read_receipt",
              "typing", "group_deleted", "group_updated"}
      [] consumer = "contacts" ->
             {"friend_request_received", "friend_request_sent",
              "friend_request_accepted", "friend_request_rejected",
              "friend_removed"}
      [] consumer = "chat" -> {"chat_message"}
      [] consumer = "chatgroup" -> {"group_message"}
      [] consumer = "profile" -> {"profile_update", "last_seen_update"}
      [] OTHER -> {}

\* Relaying event e raises in session s: the class of s has no handler for
\* the type (the dispatcher raises ValueError), or the handler reads a key
\* the event does not carry: event['event_id'] in every handler of
\* groups.GroupChatConsumer, and event["sender"] in the group_message
\* handler of chat.GroupChatConsumer, which the events of the groups app
\* on the same group_<id> channel do not have.
RelayRaises(e, s) ==
    LET c == sessions[s].consumer IN
    \/ e.type \notin Handlers(c)
    \/ c = "groups" /\ ~e.event_id
    \/ c = "chatgroup" /\ e.type = "group_message"

\* ---------------------------------------------------------------------
\* Reactions of two sockets at the same time
\* ---------------------------------------------------------------------

\* The key under which the frame a socket is handling is held.
FrameOf(s) == <<"ws", s>>

\* receive(), type 'reaction', up to and including
\* GroupMessage.objects.get(id=message_id): the instance is loaded, nothing
\* is written yet. The handler awaits here, and the frame of another socket
\* may run.
WsReactionBegin(s, g, m, reaction) ==
    LET gid == FrameGroup(s, g)
        req == WsReq("reaction", s, gid, m, "", reaction)
    IN  /\ s \in DOMAIN sessions
        /\ sessions[s].consumer = "groups"
        /\ FrameOf(s) \notin DOMAIN inflight
        /\ IF gid = None \/ gid \notin DOMAIN groups \/ m \notin DOMAIN gmsgs
           THEN WsReaction(s, g, m, reaction)
           ELSE /\ inflight' = inflight @@
                       (FrameOf(s) :> [req |-> req, row |-> gmsgs[m]])
                /\ UNCHANGED <<dbVars, wsVars, chatVars, contactVars,
                               last, reply, bus>>

\* The rest of the handler: the user's entry is set in the reactions of the
\* loaded instance, group_message.save() writes the columns of that
\* instance (read_by is a relation, not a column), and the message is
\* published.
WsReactionFinish(s) ==
    /\ FrameOf(s) \in DOMAIN inflight
    /\ s \in DOMAIN sessions
    /\ LET f == inflight[FrameOf(s)]
           m == f.req.mid
       IN  /\ m \in DOMAIN gmsgs
           /\ gmsgs' = [gmsgs EXCEPT ![m] =
                  [f.row EXCEPT
                      !.reactions = Reacted(@, sessions[s].user, f.req.body),
                      !.read_by = gmsgs[m].read_by]]
           /\ bus' = << Event(GroupChannel(f.req.group), "group_message", m, TRUE) >>
           /\ last' = f.req
           /\ reply' = NoReply
    /\ inflight' = Without(inflight, {FrameOf(s)})
    /\ UNCHANGED <<groups, nextGid, nextMid, wsVars, chatVars, contactVars>>

\* Two members of one group on a socket each, reacting to its first
\* message.
NextReactConc ==
    \/ sessions = << >> /\ CreateGroup(1, TRUE, {2})
    \/ \E tok \in {1, 2}, g \in GroupIds : GroupsConnect(tok, g)
    \/ \E s \in SessionIds, g \in GroupIds, m \in MsgIds, e \in {"like", "love"} :
           WsReactionBegin(s, g, m, e)
    \/ \E s \in SessionIds : WsReactionFinish(s)

SpecReactConc == Init /\ [][NextReactConc]_vars

\* ---------------------------------------------------------------------
\* Direct messages of two sockets at the same time
\* ---------------------------------------------------------------------

\* Message.objects.create(...): the row is added to the table. The table
\* has no uniqueness rule of its own on message_id; the test before the
\* create is the only one.
InsertMessage(table, row) == Append(table, row)

\* receive() of a frame with a "message" key, up to and including the
\* test Message.objects.filter(message_id=message_id).exists() of
\* save_encrypted_message: the id was not found, nothing is written yet.
\* The frame of a socket served by another worker may run here.
ChatSaveBegin(s, body, cid) ==
    LET req == [WsReq("create_message", s, None, None, cid, body)
                   EXCEPT !.target = sessions[s].receiver_id]
    IN  /\ s \in DOMAIN sessions
        /\ sessions[s].consumer = "chat"
        /\ FrameOf(s) \notin DOMAIN inflight
        /\ IF \/ body = "" \/ cid = ""
              \/ sessions[s].receiver_id \notin Users
              \/ MessageIdExists(cid)
           THEN ChatMessageFrame(s, body, cid)
           ELSE /\ inflight' = inflight @@ (FrameOf(s) :> [req |-> req])
                /\ UNCHANGED <<dbVars, wsVars, chatVars, contactVars,
                               last, reply, bus>>

\* The rest: Message.objects.create, then group_send of the chat_message
\* event to the room.
ChatSaveFinish(s) ==
    /\ FrameOf(s) \in DOMAIN inflight
    /\ s \in DOMAIN sessions
    /\ LET req == inflight[FrameOf(s)].req IN
       /\ dmsgs' = InsertMessage(dmsgs,
              NewMessage(req.cid, sessions[s].sender_id,
                         sessions[s].receiver_id, req.body))
       /\ bus' = << Event(sessions[s].room_group_name, "chat_message",
                          Len(dmsgs) + 1, FALSE) >>
       /\ last' = [req EXCEPT !.mid = Len(dmsgs) + 1]
       /\ reply' = NoReply
    /\ inflight' = Without(inflight, {FrameOf(s)})
    /\ UNCHANGED <<dbVars, wsVars, rooms, cmsgs, contactVars>>

\* Two direct chat sockets sending at the same time.
NextSaveConc ==
    \/ \E tok \in Users, b \in Users : ChatConnect(tok, tok, b)
    \/ \E s \in SessionIds : inflight = << >> /\ ChatDisconnect(s)
    \/ \E s \in SessionIds, c \in ClientIds : ChatSaveBegin(s, "hi", c)
    \/ \E s \in SessionIds : ChatSaveFinish(s)

SpecSaveConc == Init /\ [][NextSaveConc]_vars

\* ======================================================================
\* Properties
\* ======================================================================

\* C1: a create frame that repeats the client message_id (and body) of the
\* create frame handled just before it, on the same websocket and in the
\* same conversation, persists no second message and broadcasts nothing.
C1_IdempotentCreate ==
    [][ ( /\ last.op = "create_message" /\ last.mid # None /\ last.cid # ""
          /\ last'.op = "create_message"
          /\ last'.sid = last.sid /\ last'.group = last.group
          /\ last'.cid = last.cid /\ last'.body = last.body )
        => (gmsgs' = gmsgs /\ bus' = << >>) ]_vars

C3_OwnerIsAdmin ==
    /\ \A g \in DOMAIN groups : groups[g].creator \in groups[g].admins
    /\ ( /\ last.op = "revoke_admin" /\ last.group \in DOMAIN groups
         /\ last.target = groups[last.group].creator )
       => IsError(reply)

\* C3 witness: the owner asked to revoke the owner's own admin rights, in a
\* group whose ownership had been transferred before.
C3_Witness ==
    /\ last.op = "revoke_admin" /\ last.group \in DOMAIN groups
    /\ last.actor = groups[last.group].creator
    /\ last.target = groups[last.group].creator
    /\ \E m \in DOMAIN gmsgs : gmsgs[m].text = "transferred"
    /\ reply.status = 400

\* C4: whenever no request is in progress, the admins of every group are
\* members of it and its owner is a member, whatever requests ran before
\* and however they were interleaved.
C4_AdminsAreMembers ==
    inflight = << >>
    => \A g \in DOMAIN groups :
           /\ groups[g].admins \subseteq groups[g].members
           /\ groups[g].creator \in groups[g].members

\* C5: an event for a persisted group message goes to no session of a user
\* who is not a member of that message's group.
C5_FanOutToMembersOnly ==
    \A i \in DOMAIN bus :
        (bus[i].type = "group_message" /\ bus[i].mid \in DOMAIN gmsgs)
        => \A s \in Receivers(bus[i]) :
               sessions[s].user \in groups[gmsgs[bus[i].mid].group].members

\* C6: after a successful delete the message can still be looked up by id,
\* in the same group, with its body replaced by the tombstone marker.
C6_DeleteIsTombstone ==
    (last.op = "delete_message" /\ ~IsError(reply))
    => ( /\ last.mid \in DOMAIN gmsgs
         /\ gmsgs[last.mid].group = last.group
         /\ gmsgs[last.mid].text = Tombstone )

C8_TransferOutcome ==
    (last.op = "transfer_ownership" /\ reply.status = 200)
    => LET g == last.group IN
       /\ g \in DOMAIN groups
       /\ groups[g].creator = last.target
       /\ last.target \in groups[g].admins
       /\ last.actor \in groups[g].admins
       /\ last.actor \in groups[g].members
       /\ \E m \in DOMAIN gmsgs :
            /\ gmsgs[m] = NewGroupMessage(g, None, "transferred", last.target, last.actor)
            /\ \E i \in DOMAIN bus :
                 /\ bus[i].chan = GroupChannel(g)
                 /\ bus[i].type = "group_message"
                 /\ bus[i].mid = m

\* C8 witness: a transfer to a member who was not an admin has succeeded.
C8_Witness ==
    /\ last.op = "transfer_ownership" /\ reply.status = 200
    /\ last.actor # last.target
    /\ ~ \E m \in DOMAIN gmsgs :
           gmsgs[m].text = "granted" /\ gmsgs[m].subj = last.target

\* The user who created the room: create_group_chat stores a system message
\* with sender = request.user.
RoomOwner(r) ==
    LET i == CHOOSE i \in DOMAIN cmsgs :
                 cmsgs[i].chat = r /\ cmsgs[i].content = "created"
    IN  cmsgs[i].sender

C10_TransferTargetMustBeMember ==
    [][ ( /\ last'.op = "transfer_ownership"
          /\ last'.group \in DOMAIN groups
          /\ last'.target \notin groups[last'.group].members )
        => (IsError(reply') /\ groups' = groups /\ gmsgs' = gmsgs) ]_vars

\* C10 witness: the owner named an existing user outside the group and got
\* a 400.
C10_Witness ==
    /\ last.op = "transfer_ownership" /\ last.group \in DOMAIN groups
    /\ last.actor = groups[last.group].creator
    /\ last.target \in Users \ groups[last.group].members
    /\ reply.status = 400

C12_LeaveGroup ==
    [][ ( /\ last'.op = "leave_group"
          /\ last'.group \in DOMAIN groups
          /\ last'.actor \in groups[last'.group].members )
        => LET g == last'.group
               a == last'.actor
           IN  IF a = groups[g].creator
               THEN IsError(reply') /\ groups' = groups /\ gmsgs' = gmsgs
               ELSE /\ ~IsError(reply')
                    /\ groups'[g].members = groups[g].members \ {a}
                    /\ groups'[g].admins = groups[g].admins \ {a}
                    /\ groups'[g].creator = groups[g].creator ]_vars

\* C12 witness: a member who had been made an admin has left the group.
C12_Witness ==
    /\ last.op = "leave_group" /\ reply.status = 200
    /\ last.group \in DOMAIN groups
    /\ last.actor \notin groups[last.group].members
    /\ \E m \in DOMAIN gmsgs :
          gmsgs[m].text = "granted" /\ gmsgs[m].subj = last.actor

C20_MessageIdRequired ==
    [][ ( /\ last'.op = "create_message" /\ last'.via = "ws"
          /\ last'.body # "" /\ last'.cid = "" )
        => ( /\ reply'.kind = "error" /\ bus' = << >>
             /\ gmsgs' = gmsgs /\ dmsgs' = dmsgs ) ]_vars


\* C13: an edit or a delete of a message goes through only when the acting
\* user is the sender of the message or, for a message of a group
\* conversation, an admin or the owner of that group; a request of any
\* other user (or for a message that does not exist) is answered with an
\* error to that user, stores nothing and publishes nothing.
C13_EditDeleteNeedsSenderOrAdmin ==
    [][ last'.op \in {"edit_message", "delete_message"}
        => LET a == last'.actor
               g == last'.group
               m == last'.mid
               entitled ==
                   IF g # None
                   THEN /\ g \in DOMAIN groups
                        /\ m \in DOMAIN gmsgs
                        /\ gmsgs[m].group = g
                        /\ \/ gmsgs[m].sender = a
                           \/ a \in groups[g].admins
                           \/ a = groups[g].creator
                   ELSE /\ m \in DOMAIN cmsgs
                        /\ \/ cmsgs[m].sender = a
                           \/ /\ cmsgs[m].chat \in DOMAIN rooms
                              /\ rooms[cmsgs[m].chat].is_group
                              /\ a \in rooms[cmsgs[m].chat].admins
           IN  \/ entitled
               \/ /\ IsError(reply')
                  /\ gmsgs' = gmsgs
                  /\ cmsgs' = cmsgs
                  /\ bus' = << >> ]_vars

\* C13 witness: a member who is neither an admin nor the sender asked to
\* edit a message another member had sent, and was refused.
C13_Witness ==
    /\ last.op = "edit_message" /\ last.group \in DOMAIN groups
    /\ reply.error = "You are not authorized to edit this message"
    /\ last.actor \in groups[last.group].members \ groups[last.group].admins
    /\ last.mid \in DOMAIN gmsgs
    /\ gmsgs[last.mid].sender \in Users \ {last.actor}
    /\ gmsgs[last.mid].text = "hi"


C16_DisconnectNeverRaises ==
    [][ last'.op = "disconnect"
        => (reply'.kind # "raised" /\ \A p \in layer' : p[2] # last'.sid)
      ]_vars

\* C17: two connects that are closed for different causes (no credential,
\* invalid credential, conversation not found, not a participant) are
\* closed with different codes.
C17_DistinctCloseCodes ==
    [][ LET Cause(req) ==
                IF req.actor = None THEN "no credential"
                ELSE IF req.actor \notin Users THEN "invalid credential"
                ELSE IF req.group # None /\ req.group \notin DOMAIN groups
                    THEN "conversation not found"
                ELSE "not a participant"
        IN  ( /\ last.op = "connect" /\ reply.kind = "close"
              /\ last'.op = "connect" /\ reply'.kind = "close"
              /\ Cause(last) # Cause(last') )
            => reply.status # reply'.status
      ]_vars


C25_EditSetsEditedAtAndRepublishes ==
    [][ (last'.op = "edit_message" /\ ~IsError(reply'))
        => LET m == last'.mid
               row == IF last'.group # None THEN gmsgs'[m] ELSE cmsgs'[m]
           IN  /\ "edited_at" \in DOMAIN row
               /\ row.edited_at # None
               /\ \E i \in DOMAIN bus' :
                     bus'[i].type = "group_message" /\ bus'[i].mid = m ]_vars

\* C26: an edit request without a new body is answered with an error,
\* leaves every stored message as it was and publishes nothing.
C26_EditNeedsBody ==
    [][ (last'.op = "edit_message" /\ last'.body = "")
        => (IsError(reply') /\ gmsgs' = gmsgs /\ cmsgs' = cmsgs /\ bus' = << >>)
      ]_vars

\* C27: in every state, for every message m of a conversation, the
\* conversation's pinned-message reference is m exactly when m.is_pinned
\* is set.
C27_PinnedReferenceMatchesFlag ==
    \A m \in DOMAIN gmsgs :
        gmsgs[m].group \in DOMAIN groups
        => LET grp == groups[gmsgs[m].group] IN
           ( "pinned_message" \in DOMAIN grp /\ grp.pinned_message = m )
               <=> gmsgs[m].is_pinned

\* C28: on an open websocket, every frame that fails (it names no group,
\* a group or a message that does not exist, a message the user may not
\* change, it has no known type, one of its publishes fails, or, on the
\* direct socket, it has no body, no client id, an unknown receiver or a
\* used client id) is answered with an error frame; an error frame comes
\* with no event on any channel and leaves the session and its
\* registrations in place; no event of an error type is ever published.
C28_EveryFailureIsAnErrorFrame ==
    [][ ( /\ last'.via = "ws"
          /\ last'.op \notin {"connect", "disconnect", "ping", "none"} )
        => LET s == last'.sid
               u == last'.actor
               g == last'.group
               m == last'.mid
               op == last'.op
               failed ==
                   IF sessions[s].consumer = "groups"
                   THEN \/ g = None
                        \/ g \notin DOMAIN groups
                        \/ op = "untyped"
                        \/ last'.fault # "none"
                        \/ (op # "create_message" /\ m \notin DOMAIN gmsgs)
                        \/ /\ op \in {"edit_message", "delete_message"}
                           /\ m \in DOMAIN gmsgs
                           /\ gmsgs[m].sender # u
                           /\ u \notin groups[g].admins
                           /\ u # groups[g].creator
                        \/ /\ op \in {"pin_message", "unpin_message"}
                           /\ u \notin groups[g].admins
                           /\ u # groups[g].creator
                   ELSE \/ last'.body = ""
                        \/ last'.cid = ""
                        \/ last'.target \notin Users
                        \/ \E i \in DOMAIN dmsgs : dmsgs[i].message_id = last'.cid
           IN  /\ failed => reply'.kind = "error"
               /\ reply'.kind = "error"
                     => /\ bus' = << >>
                        /\ s \in DOMAIN sessions'
                        /\ layer' = layer
               /\ \A i \in DOMAIN bus' : bus'[i].type # "error" ]_vars

\* C29: when the row of a new group message is stored and one of the
\* publishes that follow fails, the sending session gets an error frame,
\* the row stays in the store, and the failed event is not published
\* again.
C29_PublishFailureIsReported ==
    [][ (last'.op = "create_message" /\ last'.fault # "none")
        => /\ reply'.kind = "error"
           /\ last'.mid \in DOMAIN gmsgs'
           /\ gmsgs'[last'.mid].text = last'.body
           /\ \A i \in DOMAIN bus' : bus'[i].type # last'.fault ]_vars

\* C30: a frame with content and a client id whose type is absent or
\* unknown, sent on the socket of an existing group, creates a message
\* with that content.
C30_UntypedFrameCreatesMessage ==
    [][ ( /\ last'.op = "untyped"
          /\ last'.body # ""
          /\ last'.group \in DOMAIN groups
          /\ nextMid <= MaxMsgs )
        => /\ nextMid' = nextMid + 1
           /\ nextMid \in DOMAIN gmsgs'
           /\ gmsgs'[nextMid].text = last'.body
           /\ gmsgs'[nextMid].sender = last'.actor ]_vars

\* C31: a disconnect removes the channel registrations of the session that
\* disconnects and no other: every stored message stays as it was, the
\* other sessions and their registrations are unchanged, and nothing is
\* published.
C31_DisconnectRemovesOwnRegistrations ==
    [][ (last'.op = "disconnect" /\ last'.via = "ws")
        => LET s == last'.sid
           IN  /\ gmsgs' = gmsgs /\ dmsgs' = dmsgs /\ cmsgs' = cmsgs
               /\ layer' = {e \in layer : e[2] # s}
               /\ DOMAIN sessions' = DOMAIN sessions \ {s}
               /\ \A t \in DOMAIN sessions' : sessions'[t] = sessions[t]
               /\ bus' = << >> ]_vars

\* C31 witness: a session that had sent a group message has disconnected,
\* the message is stored, and another session is still registered.
C31_Witness ==
    /\ last.op = "disconnect" /\ last.via = "ws"
    /\ last.sid \notin DOMAIN sessions
    /\ \E m \in DOMAIN gmsgs : gmsgs[m].sender = last.actor
    /\ \E t \in DOMAIN sessions : t # last.sid /\ \E e \in layer : e[2] = t

\* C32: a frame that created a message (a group message or a direct
\* message) is answered on the socket that sent it with an acknowledgment
\* frame.
C32_CreateIsAcknowledged ==
    [][ ( /\ last'.via = "ws" /\ last'.op = "create_message"
          /\ last'.fault = "none"
          /\ \/ nextMid' = nextMid + 1
             \/ Len(dmsgs') = Len(dmsgs) + 1 )
        => /\ reply'.kind = "ack"
           /\ last'.sid \in DOMAIN sessions' ]_vars

\* C33: a binary frame that arrives with no pending metadata stores and
\* publishes nothing, and after any binary frame, accepted or rejected,
\* the session has no pending metadata.
C33_BinaryFrameUsesMetadataOnce ==
    [][ (last'.op = "binary")
        => LET s == last'.sid
           IN  /\ ~sessions[s].pending => (gmsgs' = gmsgs /\ bus' = << >>)
               /\ ~sessions'[s].pending ]_vars

\* C34: a group_message frame on the groups websocket whose sender is not
\* a member of the group it names, at the time the frame is handled,
\* stores nothing and publishes nothing, and a frame with a body is
\* answered with an error frame.
C34_WsCreateNeedsMembership ==
    [][ ( /\ last'.via = "ws" /\ last'.op = "create_message"
          /\ sessions[last'.sid].consumer = "groups"
          /\ last'.group \in DOMAIN groups
          /\ last'.actor \notin groups[last'.group].members )
        => /\ gmsgs' = gmsgs
           /\ bus' = << >>
           /\ last'.body # "" => reply'.kind = "error" ]_vars

\* C35: a reaction or read-receipt frame on the groups websocket changes
\* the message and publishes it only when the sender is a member of the
\* message's group, and then only on the channel of that group; a frame
\* from anyone else, or naming another group than the message's, leaves
\* the message as it was, publishes nothing and gets an error frame.
C35_ReactionNeedsMembership ==
    [][ ( /\ last'.via = "ws" /\ last'.op \in {"reaction", "read_receipt"}
          /\ last'.mid \in DOMAIN gmsgs )
        => LET m == last'.mid
               owner == gmsgs[m].group
               allowed == /\ owner \in DOMAIN groups
                          /\ last'.actor \in groups[owner].members
                          /\ last'.group = owner
           IN  /\ ~allowed => /\ gmsgs' = gmsgs
                              /\ bus' = << >>
                              /\ reply'.kind = "error"
               /\ \A i \in DOMAIN bus' : bus'[i].chan = GroupChannel(owner) ]_vars

\* C40: an accept or a reject of a pending friend request by a user who is
\* not its receiver, over REST or over the contacts websocket, leaves the
\* request table and the contact lists as they were.
C40_OnlyReceiverDecides ==
    [][ ( /\ last'.op \in {"accept_request", "reject_request"}
          /\ last'.mid \in DOMAIN requests
          /\ ~requests[last'.mid].accepted
          /\ last'.actor # requests[last'.mid].receiver )
        => /\ requests' = requests
           /\ contacts' = contacts ]_vars

\* C36: every event the last handler published can be relayed by every
\* session it was delivered to: the session's consumer class has a handler
\* for the event's type and the event carries the keys the handler reads.
C36_EveryEventCanBeRelayed ==
    \A i \in DOMAIN bus :
        \A s \in bus[i].to \cap DOMAIN sessions : ~RelayRaises(bus[i], s)

\* C37: the owner of a group changes only in a successful transfer of
\* ownership, and then to the transfer's target: once a transfer to N has
\* succeeded, no other administrative request, whenever it was loaded,
\* changes the owner.
C37_OwnerChangesOnlyByTransfer ==
    [][ \A g \in DOMAIN groups \cap DOMAIN groups' :
            groups'[g].creator # groups[g].creator
            => /\ last'.op = "transfer_ownership"
               /\ last'.group = g
               /\ reply' = Http(200, "")
               /\ groups'[g].creator = last'.target ]_vars

\* C38: a reaction that has been stored leaves the stored reaction of
\* every other user in place, whatever other reaction frames were being
\* handled at the same time.
C38_ReactionKeepsOtherUsers ==
    [][ (last'.op = "reaction" /\ last'.via = "ws" /\ reply'.kind # "error")
        => LET m == last'.mid IN
           \A u \in DOMAIN gmsgs[m].reactions :
               u # last'.actor
               => /\ u \in DOMAIN gmsgs'[m].reactions
                  /\ gmsgs'[m].reactions[u] = gmsgs[m].reactions[u] ]_vars

====
